---- MODULE Spec2Model ----
(***************************************************************************)
(* socket-serve: the session / queue / room / delivery subsystem.          *)
(*                                                                         *)
(* The store (Redis) is modelled at the granularity of single commands:    *)
(* every `await this.redis.<cmd>` of RedisStateManager is one step, so     *)
(* that commands of concurrent requests interleave as they do at the       *)
(* store.                                                                  *)
(***************************************************************************)
EXTENDS Integers, Sequences, FiniteSets, TLC

\* ------------------------------------------------------------------ bounds
\* messages one behaviour builds: one received online and three while offline
MaxMsgs == 4
\* messages built in the store, ack and stream specifications
MaxQueueMsgs == 3
\* handleAck calls made for one messageId
MaxAckCalls == 2
\* messages built in the room broadcast specification
MaxRoomMsgs == 2
\* the configured ttl, in seconds
Ttl == 2

\* how many middlewares are registered
MaxChain == 3

\* how many connect requests, polling intervals and EventSources the basic
\* client has at a time
MaxInFlight == 1
MaxBasicTransports == 2

\* how many polling intervals the client starts
MaxIntervals == 3

\* the size above which the dedupe cleanup trims processedMessages (10000) and
\* the number of ids it keeps (1000), scaled down
DedupeMax == 2
DedupeKeep == 1

\* how often one message is delivered to the client
MaxReceive == 2

\* awayTimeout and offlineTimeout (5 and 10 minutes), in ticks of the model's clock
AwayTimeout == 1
OfflineTimeout == 2

Sessions == {"s1", "s2", "s3"}
\* the sessions the state manager is exercised on directly
StoreSessions == {"s1", "s2"}
Callers == {"c1", "c2"}
Rooms == {"r1", "r2"}
MsgNums == 1..MaxMsgs

Undefined == "undefined"

\* randomBytes(8).toString("hex"): one fresh id per message number
MessageIdOf(k) == <<"a1", "a2", "a3", "a4", "a5", "a6", "a7", "a8">>[k]
AckIds == {MessageIdOf(k) : k \in MsgNums}

\* pub/sub channels: ss:channel:<sid> per session and ss:channel:broadcast
Channels == Sessions \cup {"broadcast"}

NoMessage == [data |-> 0]

VARIABLES
  backend,      \* which state manager the server was built with: "redis" | "upstash"
  \* ---- message queue (RedisStateManager, list ss:<sid>:queue)
  queue,        \* [Sessions -> Seq(JSON text)]; a missing key is the empty list
  qExp,         \* [Sessions -> BOOLEAN]: the queue key has an expiry set
  nextMsg,      \* number of the next message handed to enqueueMessage
  enqPc,        \* [Callers -> {"idle", "rpushed"}]: position in enqueueMessage
  enqSid,       \* [Callers -> Sessions]: the session of the call in progress
  deqPc,        \* [Sessions -> {"idle", "read"}]: position in dequeueMessages
  deqBuf,       \* [Sessions -> Seq(JSON text)]: what LRANGE returned
  drained,      \* [Sessions -> Seq(message)]: what the last dequeueMessages returned
  \* ---- history of the queue (observations, not program state)
  sent,         \* [Sessions -> Seq(message)]: pushed since the last completed drain
  deqExpected,  \* [Sessions -> Seq(message)]: `sent` when the last drain read
  deqClean,     \* [Sessions -> BOOLEAN]: no push ran between that drain's read and delete
  deqDone,      \* [Sessions -> BOOLEAN]: some drain has completed
  pushed,       \* set of message numbers whose RPUSH has run
  returnedCnt,  \* [MsgNums -> Nat]: how often a drain returned the message
  \* ---- session records (string key ss:<sid>:state)
  live,         \* the session ids that have a state record
  \* ---- room registry (sets ss:room:<room> and ss:<sid>:rooms)
  roomMembers,  \* [Rooms -> SUBSET Sessions]: forward index
  sessionRooms, \* [Sessions -> SUBSET Rooms]: reverse index
  rmPc,         \* [Callers -> {"idle", "join2", "leave2"}]: position in joinRoom / leaveRoom
  rmSid,        \* [Callers -> Sessions]: session of the caller's current or last call
  rmRoom,       \* [Callers -> Rooms]: room of the caller's current or last call
  \* ---- history of the room registry (observations, not program state)
  rmLast,       \* [Callers -> {"none", "joined", "left"}]: the caller's last completed call
  rmClean,      \* [Callers -> BOOLEAN]: no other request touched the pair since that call began
  \* ---- pub/sub and the streams of the adapter's GET handler
  subs,         \* the sessions whose stream holds a subscription to its session channel
  pubCnt,       \* [Channels -> [MsgNums -> Nat]]: PUBLISH commands issued (observation)
  streamed,     \* [Sessions -> Seq(text)]: the messages written to the session's stream
  \* ---- the socket handed to handlers (ServerSocketImpl / EnhancedServerSocket)
  emPc,         \* [Callers -> {"idle", "enqueue", "expire", "publish", "enh_rpush", ...}]: position in emit
  emMsg,        \* [Callers -> message]: the message the emit in progress built
  ackCallbacks, \* the messageIds that have a registered ack callback
  ackTimers,    \* the messageIds whose 5 s timeout is pending
  cbThrows,     \* the messageIds whose callback throws when it is invoked
  cbResp,       \* [AckIds -> Nat]: invocations cb(response)
  cbTimeout,    \* [AckIds -> Nat]: invocations cb(Error("Acknowledgment timeout"))
  \* ---- broadcast and broadcastToRoom
  bcPc,         \* [Callers -> {"idle", "publish"}]: position in broadcastToRoom
  bcMsg,        \* [Callers -> message]: the message the call in progress built
  bcPending,    \* [Callers -> SUBSET Sessions]: recipients not yet published to
  bcKind,       \* [MsgNums -> {"none", "room", "all"}]: which call built message k (observation)
  bcSender,     \* [MsgNums -> Sessions]: the socket that call was made on
  bcSnap,       \* [MsgNums -> SUBSET Sessions]: the members getRoomMembers returned to it
  bcSubs,       \* [MsgNums -> SUBSET Sessions]: the streams active when broadcast published
  bcDone,       \* [MsgNums -> BOOLEAN]: the call has resolved
  \* ---- EnhancedSocketServer.handleConnect serving the client's POST /connect
  hcPc,         \* "idle", "dequeue", "del" or "respond"
  hcSid,        \* the session id it generated
  hcTs,         \* options.lastMessageTimestamp
  hcMissed,     \* missedMessages
  \* ---- EnhancedClientSocket (transport "sse")
  cId,          \* this.id, "none" before the first connect
  cConnected,   \* this.connected
  cEventSource, \* this.eventSource is set
  cCursor,      \* how many messages of its stream the EventSource has handed over
  cReconnectTimer, \* this.reconnectTimer is pending
  cAttempts,    \* this.reconnectAttempts
  cLastTs,      \* this.lastMessageTimestamp
  cProcessed,   \* this.processedMessages, a Set in insertion order
  cHandled,     \* [MsgNums -> Nat]: times the "chat" handlers ran for message k (observation)
  \* ---- what happened to each emitted message (observation)
  emTarget,     \* [MsgNums -> Sessions \cup {"none"}]: the session a resolved emit was for
  emOffline,    \* [MsgNums -> BOOLEAN]: it was published while the client of that session was offline
  hcBefore,     \* the messages emitted to the client's session before its connect in progress began
  reconnected,  \* [MsgNums -> BOOLEAN]: that client has completed a connect begun since
  missedCnt,    \* [MsgNums -> Nat]: times a connect returned it in missedMessages
  cSentTs,      \* the lastMessageTimestamp the client's last completed connect carried
  \* ---- the session records and their expiry
  sessTtl,      \* [Sessions -> 0..Ttl]: seconds until ss:<sid>:state expires, 0 when absent
  created,      \* the session ids createSession was called for (observation)
  deleted,      \* the session ids a deleteSession has completed for (observation)
  sinceWrite,   \* [Sessions -> 0..Ttl]: seconds since the record was last written (observation)
  age,          \* [Sessions -> 0..Ttl+1]: seconds since createSession (observation)
  updPc,        \* [Callers -> {"idle", "setex"}]: position in updateSession
  updSid,       \* [Callers -> Sessions]: the session of the updateSession in progress
  updSawAbsent, \* [Callers -> BOOLEAN]: the caller's last updateSession read no record
  updWrote,     \* [Callers -> BOOLEAN]: the caller's last updateSession wrote the record
  \* ---- the expiry of the set keys
  rmExp,        \* [Rooms -> BOOLEAN]: ss:room:<room> has an expiry
  srExp,        \* [Sessions -> BOOLEAN]: ss:<sid>:rooms has an expiry
  \* ---- handleDisconnect
  hdPc,         \* [Callers -> {"idle", "cleanup", "leaving", "handler", "delete"}]
  hdSid,        \* [Callers -> Sessions]: sessionId
  hdKind,       \* [Callers -> {"basic", "enhanced"}]: the server class handling the request
  hdThrows,     \* [Callers -> BOOLEAN]: the application's disconnect handler throws
  hdToLeave,    \* [Callers -> SUBSET Rooms]: leaveAll: leave(room) calls not yet begun
  hdLeaving,    \* [Callers -> SUBSET Rooms]: leaveAll: leave(room) calls between their two SREMs
  hdResult,     \* [Sessions -> {"none", "returned", "threw"}]: how the last handleDisconnect
                \*   that found the session ended (observation)
  \* ---- handleMessage
  hmPc,         \* [Callers -> {"idle", "got", "middleware", "dispatch", "handler"}]
  hmSid,        \* [Callers -> Sessions]: sessionId
  hmEvent,      \* [Callers -> Events]: event
  hmKind,       \* [Callers -> {"basic", "enhanced"}]: the server class handling the request
  hmState,      \* [Callers -> {"state", "null"}]: const state = await getSession(sessionId)
  hmOutcome,    \* [Callers -> {"none", "returned", "notfound", "rejected"}]: how the
                \*   caller's last handleMessage ended (observation)
  hmRanMiddleware, \* [Callers -> BOOLEAN]: that call ran the middleware chain (observation)
  hmRanHandler, \* [Callers -> BOOLEAN]: that call invoked a message handler (observation)
  sinceMsg,     \* [Sessions -> 0..Ttl]: seconds since a handleMessage last read the
                \*   session's record, Ttl before the first (observation)
  \* ---- handleConnect: middleware and the delayed connect handlers
  hcRejected,   \* the session ids whose handleConnect the middleware chain rejected (observation)
  hcTimers,     \* the session ids whose setTimeout for the connect handlers is pending
  onConnectRan, \* the session ids the connect handlers were run for (observation)
  \* ---- PresenceManager
  presStatus,   \* [Users -> Statuses \cup {"none"}]: presenceMap, the status of each entry
  presElapsed,  \* [Users -> 0..OfflineTimeout+1]: Date.now() - lastSeen of each entry
  socketToUser, \* [Sessions -> Users \cup {"none"}]: socketToUser
  userToSockets, \* [Users -> Seq(Sessions)]: userToSockets, each Set in insertion order
  sockStatus,   \* [Sessions -> Statuses \cup {"none"}]: the status a tracked session was last tracked or updated with (observation)
  sinceBeat,    \* [Users -> 0..OfflineTimeout+1]: time since the user was last heard of (observation)
  presOp,       \* the last presence operation (observation)
  notes,        \* the updates that operation handed to the presence handlers (observation)
  \* ---- EnhancedClientSocket, replayed messages
  cReceived,    \* [MsgNums -> Nat]: times handleMessage was called with message k (observation)
  \* ---- EnhancedClientSocket.emit with an ack callback
  cAckCallbacks, \* this.ackCallbacks of the client: the messageIds with a registered callback
  ceTimers,     \* the client emits whose 5 s ack timeout is pending
  ceFetch,      \* [ClientEmits -> {"none", "refused", "sent", "done", "failed"}]: the POST /message of each emit
  ceCalls,      \* [ClientEmits -> Seq(outcome)]: the invocations of each ack callback (observation)
  \* ---- EnhancedClientSocket transports
  cTransport,   \* this.transport: "sse" or "polling"
  cPollingInterval, \* this.pollingInterval: the handle of the latest setInterval, 0 for null
  cIntervals,   \* the handles of the polling intervals that are running
  cNextInterval, \* the handle the next setInterval returns
  \* ---- ClientSocketImpl, the basic client
  bTransport,   \* this.transport of the basic client, "none" before it is constructed
  bConnected,   \* this.connected
  bAttempts,    \* this.reconnectAttempts
  bConnects,    \* the automatic (timer) and manual connect() calls whose POST /connect is in flight
  bTimers,      \* the reconnect timers that are pending
  bIntervals,   \* the polling intervals that are running
  bSources,     \* the EventSources that are open
  bRun,         \* automatic reconnect attempts made since the last successful connect (observation)
  bSched,       \* attempt number and delay of the latest reconnect timer (observation)
  \* ---- socket.set and its background updateSession
  sData,        \* [Sessions -> SUBSET Keys]: the keys of data in the stored session record
  shPc,         \* [Handlers -> "idle", "handler", "upd_get", "upd_setex", "done"]: where each handler invocation is
  shSid,        \* [Handlers -> Sessions]: the session of the invocation
  shState,      \* [Handlers -> SUBSET Keys]: data of the state object the invocation loaded
  shCur,        \* [Handlers -> SUBSET Keys]: data of the record updateSession read
  shKey,        \* [Handlers -> Keys]: the key the invocation set (observation)
  \* ---- MiddlewareChain
  mwChain,      \* this.middlewares of the server MiddlewareChain: the kinds of the registered middlewares
  mwToken,      \* [Sessions -> token]: ctx.auth.token of the connect request of each session (observation)
  mwRan,        \* the indices of the middlewares the latest execute invoked, in order (observation)
  mwResult,     \* how the latest execute ended: "none", "resolved" or "rejected" (observation)
  \* ---- namespaces: message handlers
  nsMessages,   \* [Namespaces -> SUBSET Events]: the events each Namespace has a message handler for
  glMessages,   \* SUBSET Events: the events with a global message handler
  hmNs,         \* [Callers -> Namespaces]: options.namespace of the message being dispatched, "/" when absent
  hmInvoked,    \* [Callers -> Seq]: the application handlers that call invoked, in order (observation)
  \* ---- namespaces: the socket maps
  nsSockets,    \* [Namespaces -> SUBSET Sessions]: the ids in each Namespace.sockets map
  \* ---- EnhancedClientSocket: timers
  cHeartbeatTimer, \* BOOLEAN: this.heartbeatTimer holds a handle
  cHeartbeats,  \* Nat: heartbeat intervals running
  cDedupeCleanupInterval, \* BOOLEAN: this.dedupeCleanupInterval holds a handle
  cDedupeCleanups, \* Nat: dedupe cleanup intervals running
  cDisconnectReturned \* BOOLEAN: disconnect() has returned and connect() was not called since (observation)

queueVars == <<queue, qExp, nextMsg, enqPc, enqSid, deqPc, deqBuf, drained,
               sent, deqExpected, deqClean, deqDone, pushed, returnedCnt>>

roomVars == <<live, roomMembers, sessionRooms, rmPc, rmSid, rmRoom, rmLast, rmClean>>

pubsubVars == <<subs, pubCnt, streamed>>
emitVars == <<emPc, emMsg>>
ackVars == <<ackCallbacks, ackTimers, cbThrows, cbResp, cbTimeout>>

bcVars == <<bcPc, bcMsg, bcPending, bcKind, bcSender, bcSnap, bcSubs, bcDone>>

connectVars == <<hcPc, hcSid, hcTs, hcMissed>>
clientVars == <<cId, cConnected, cEventSource, cCursor, cReconnectTimer, cAttempts,
                cLastTs, cProcessed, cHandled>>
obsVars == <<emTarget, emOffline, hcBefore, reconnected, missedCnt, cSentTs>>

recVars == <<sessTtl, created, deleted, sinceWrite, age>>
updVars == <<updPc, updSid, updSawAbsent, updWrote>>
expFlags == <<rmExp, srExp>>
hdVars == <<hdPc, hdSid, hdKind, hdThrows, hdToLeave, hdLeaving, hdResult>>
mwVars == <<hcRejected, hcTimers, onConnectRan>>
hmVars == <<hmPc, hmSid, hmEvent, hmKind, hmState, hmOutcome, hmRanMiddleware, hmRanHandler>>
presVars == <<presStatus, presElapsed, socketToUser, userToSockets, sockStatus, sinceBeat, presOp, notes>>
dedupeVars == <<cReceived>>
ceVars == <<cAckCallbacks, ceTimers, ceFetch, ceCalls>>
transVars == <<cTransport, cPollingInterval, cIntervals, cNextInterval>>
basicVars == <<bTransport, bConnected, bAttempts, bConnects, bTimers, bIntervals, bSources, bRun, bSched>>
setVars == <<sData, shPc, shSid, shState, shCur, shKey>>
chainVars == <<mwChain, mwToken, mwRan, mwResult>>
nsMsgVars == <<nsMessages, glMessages, hmNs, hmInvoked>>
nsSockVars == <<nsSockets>>
timerVars == <<cHeartbeatTimer, cHeartbeats, cDedupeCleanupInterval, cDedupeCleanups, cDisconnectReturned>>

vars == <<backend, queueVars, roomVars, pubsubVars, emitVars, ackVars, bcVars,
          connectVars, clientVars, obsVars, recVars, updVars, expFlags, hdVars,
          hmVars, sinceMsg, mwVars, presVars, dedupeVars, ceVars, transVars, basicVars, setVars, chainVars, nsMsgVars, nsSockVars, timerVars>>

\* what the operations of one component leave alone
frameQueue == <<backend, timerVars, nsSockVars, nsMsgVars, chainVars, setVars, basicVars, transVars, ceVars, dedupeVars, presVars, roomVars, recVars, updVars, expFlags, hdVars, hmVars, mwVars, sinceMsg, pubsubVars, emitVars, ackVars,
                bcVars, connectVars, clientVars, obsVars>>
frameRoom == <<backend, timerVars, nsSockVars, nsMsgVars, chainVars, setVars, basicVars, transVars, ceVars, dedupeVars, presVars, updVars, expFlags, hdVars, hmVars, mwVars, sinceMsg, pubsubVars, emitVars, ackVars, bcVars,
               connectVars, clientVars, obsVars>>
frameEmit == <<backend, timerVars, nsSockVars, nsMsgVars, chainVars, setVars, basicVars, transVars, ceVars, dedupeVars, presVars, roomVars, recVars, updVars, expFlags, hdVars, hmVars, mwVars, sinceMsg, bcVars, connectVars, clientVars,
               hcBefore, reconnected, missedCnt, cSentTs>>
frameBroadcast == <<backend, timerVars, nsSockVars, nsMsgVars, chainVars, setVars, basicVars, transVars, ceVars, dedupeVars, presVars, roomVars, queue, qExp, enqPc, enqSid, deqPc, deqBuf, drained,
                    sent, deqExpected, deqClean, deqDone, pushed, returnedCnt,
                    recVars, updVars, expFlags, hdVars, hmVars, mwVars, sinceMsg,
                    emitVars, ackVars, connectVars, clientVars, obsVars>>
frameStream == <<backend, timerVars, nsSockVars, nsMsgVars, chainVars, setVars, basicVars, transVars, ceVars, dedupeVars, presVars, queueVars, roomVars, recVars, updVars, expFlags, hdVars, hmVars, mwVars, sinceMsg,
                 emitVars, ackVars, bcVars, connectVars>>
frameConnect == <<backend, timerVars, nsSockVars, nsMsgVars, chainVars, setVars, basicVars, transVars, ceVars, dedupeVars, presVars, roomMembers, sessionRooms, rmPc, rmSid, rmRoom, rmLast, rmClean,
                  updVars, expFlags, hdVars, hmVars, sinceMsg, nextMsg, pubsubVars, emitVars, ackVars, bcVars>>
frameClient == <<backend, timerVars, nsSockVars, nsMsgVars, chainVars, setVars, basicVars, transVars, ceVars, dedupeVars, presVars, queueVars, roomVars, recVars, updVars, expFlags, hdVars, hmVars, mwVars, sinceMsg,
                 emitVars, ackVars, bcVars, connectVars>>
frameSession == <<backend, timerVars, nsSockVars, nsMsgVars, chainVars, setVars, basicVars, transVars, ceVars, dedupeVars, presVars, queueVars, roomMembers, sessionRooms, rmPc, rmSid, rmRoom, rmLast,
                  rmClean, expFlags, hdVars, hmVars, mwVars, pubsubVars, emitVars, ackVars, bcVars,
                  connectVars, clientVars, obsVars>>
frameDisconnect == <<backend, timerVars, nsSockVars, nsMsgVars, chainVars, setVars, basicVars, transVars, ceVars, dedupeVars, presVars, nextMsg, enqPc, enqSid, deqPc, deqBuf, drained,
                     sent, deqExpected, deqClean, deqDone, pushed, returnedCnt,
                     rmPc, rmSid, rmRoom, rmLast, updVars, expFlags, hmVars, mwVars, sinceMsg,
                     pubsubVars, emitVars, ackVars, bcVars, connectVars, clientVars, obsVars>>
frameMessage == <<backend, timerVars, nsSockVars, nsMsgVars, chainVars, setVars, basicVars, transVars, ceVars, dedupeVars, presVars, queueVars, roomVars, recVars, updVars, expFlags, hdVars, mwVars,
                  pubsubVars, emitVars, ackVars, bcVars, connectVars, clientVars, obsVars>>
frameRollback == <<backend, timerVars, nsSockVars, nsMsgVars, chainVars, setVars, basicVars, transVars, ceVars, dedupeVars, presVars, roomMembers, rmPc, rmSid, rmRoom, rmLast,
                   nextMsg, enqPc, enqSid, deqPc, deqBuf, drained,
                   sent, deqExpected, deqClean, deqDone, pushed, returnedCnt,
                   updVars, expFlags, hdVars, hmVars, sinceMsg, mwVars,
                   pubsubVars, emitVars, ackVars, bcVars, clientVars, obsVars>>
frameTimer == <<backend, timerVars, nsSockVars, nsMsgVars, chainVars, setVars, basicVars, transVars, ceVars, dedupeVars, presVars, queueVars, roomVars, recVars, updVars, expFlags, hdVars, hmVars,
                sinceMsg, pubsubVars, emitVars, ackVars, bcVars, connectVars, clientVars,
                obsVars>>
framePresence == <<backend, timerVars, nsSockVars, nsMsgVars, chainVars, setVars, basicVars, transVars, ceVars, dedupeVars, queueVars, roomVars, pubsubVars, emitVars, ackVars, bcVars,
                   connectVars, clientVars, obsVars, recVars, updVars, expFlags, hdVars,
                   hmVars, sinceMsg, mwVars>>
frameDedupe == <<backend, timerVars, nsSockVars, nsMsgVars, chainVars, setVars, basicVars, transVars, ceVars, presVars, queueVars, roomVars, pubsubVars, emitVars, ackVars, bcVars,
                 connectVars, obsVars, recVars, updVars, expFlags, hdVars, hmVars,
                 sinceMsg, mwVars>>
frameClientAck == <<backend, timerVars, nsSockVars, nsMsgVars, chainVars, setVars, basicVars, transVars, dedupeVars, presVars, queueVars, roomVars, pubsubVars, emitVars, ackVars,
                    bcVars, connectVars, obsVars, recVars, updVars, expFlags, hdVars, hmVars,
                    sinceMsg, mwVars>>
frameConnectPolling == <<backend, timerVars, nsSockVars, nsMsgVars, chainVars, setVars, basicVars, ceVars, dedupeVars, presVars, roomMembers, sessionRooms, rmPc, rmSid, rmRoom, rmLast, rmClean,
                         updVars, expFlags, hdVars, hmVars, sinceMsg, nextMsg, pubsubVars, emitVars, ackVars, bcVars>>
frameTransport == <<backend, timerVars, nsSockVars, nsMsgVars, chainVars, setVars, basicVars, ceVars, dedupeVars, presVars, queueVars, roomVars, emitVars, ackVars,
                    bcVars, connectVars, obsVars, recVars, updVars, expFlags, hdVars, hmVars,
                    sinceMsg, mwVars>>
frameBasic == <<backend, timerVars, nsSockVars, nsMsgVars, chainVars, setVars, queueVars, roomVars, pubsubVars, emitVars, ackVars, bcVars,
                connectVars, clientVars, obsVars, recVars, updVars, expFlags, hdVars,
                hmVars, sinceMsg, mwVars, presVars, dedupeVars, ceVars, transVars>>
frameSet == <<backend, timerVars, nsSockVars, nsMsgVars, chainVars, basicVars, transVars, ceVars, dedupeVars, presVars, queueVars, roomMembers, sessionRooms, rmPc, rmSid, rmRoom, rmLast,
                  rmClean, expFlags, hdVars, hmVars, mwVars, pubsubVars, emitVars, ackVars, bcVars,
                  connectVars, clientVars, obsVars>>
frameConnectChain == <<backend, timerVars, nsSockVars, nsMsgVars, setVars, basicVars, transVars, ceVars, dedupeVars, presVars, roomMembers, sessionRooms, rmPc, rmSid, rmRoom, rmLast, rmClean,
                  updVars, expFlags, hdVars, hmVars, sinceMsg, nextMsg, pubsubVars, emitVars, ackVars, bcVars>>
frameDispatch == <<backend, timerVars, nsSockVars, chainVars, setVars, basicVars, transVars, ceVars, dedupeVars, presVars, queueVars, roomVars, recVars, updVars, expFlags, hdVars, mwVars,
                  pubsubVars, emitVars, ackVars, bcVars, connectVars, clientVars, obsVars>>
frameTimerNs == <<backend, timerVars, nsMsgVars, chainVars, setVars, basicVars, transVars, ceVars, dedupeVars, presVars, queueVars, roomVars, recVars, updVars, expFlags, hdVars, hmVars,
                sinceMsg, pubsubVars, emitVars, ackVars, bcVars, connectVars, clientVars,
                obsVars>>
frameDisconnectNs == <<backend, timerVars, nsMsgVars, chainVars, setVars, basicVars, transVars, ceVars, dedupeVars, presVars, nextMsg, enqPc, enqSid, deqPc, deqBuf, drained,
                     sent, deqExpected, deqClean, deqDone, pushed, returnedCnt,
                     rmPc, rmSid, rmRoom, rmLast, updVars, expFlags, hmVars, mwVars, sinceMsg,
                     pubsubVars, emitVars, ackVars, bcVars, connectVars, clientVars, obsVars>>
frameConnectTimers == <<backend, nsSockVars, nsMsgVars, chainVars, setVars, basicVars, ceVars, dedupeVars, presVars, roomMembers, sessionRooms, rmPc, rmSid, rmRoom, rmLast, rmClean,
                         updVars, expFlags, hdVars, hmVars, sinceMsg, nextMsg, pubsubVars, emitVars, ackVars, bcVars>>
frameTransportTimers == <<backend, nsSockVars, nsMsgVars, chainVars, setVars, basicVars, ceVars, dedupeVars, presVars, queueVars, roomVars, emitVars, ackVars,
                    bcVars, connectVars, obsVars, recVars, updVars, expFlags, hdVars, hmVars,
                    sinceMsg, mwVars>>

\* ---------------------------------------------------------------- messages
\* SocketMessage (types.ts): the fields of a message object
Fields == {"event", "data", "timestamp", "sessionId", "messageId", "requiresAck"}

\* a message as ServerSocketImpl.emit builds it: payload k, sender sid, the
\* time ts of Date.now(); messageId is undefined unless an ack was requested
Message(k, sid, withAck, ts) ==
  [event |-> "chat", data |-> k, timestamp |-> ts, sessionId |-> sid,
   messageId |-> IF withAck THEN MessageIdOf(k) ELSE Undefined,
   requiresAck |-> withAck]

\* a Set in insertion order: add, delete, has, size, first value
SetAdd(set, x) == IF \E i \in 1..Len(set) : set[i] = x THEN set ELSE Append(set, x)
SetDelete(set, x) == SelectSeq(set, LAMBDA y : y # x)
SetHas(set, x) == \E i \in 1..Len(set) : set[i] = x
FirstValue(set) == IF set = <<>> THEN "" ELSE set[1]

\* property read: a missing property reads as undefined
Field(o, f) == IF f \in DOMAIN o THEN o[f] ELSE Undefined

\* JSON.stringify: properties whose value is undefined are left out
Stringify(m) ==
  IF Field(m, "messageId") = Undefined
    THEN [f \in (DOMAIN m) \ {"messageId"} |-> m[f]]
    ELSE m

\* JSON.parse: the object holding exactly the properties of the text
Parse(str) == str

\* messages.map(msg => JSON.parse(msg))
ParseAll(strs) == [i \in 1..Len(strs) |-> Parse(strs[i])]

\* two message objects an observer cannot tell apart
SameMessage(a, b) == \A f \in Fields : Field(a, f) = Field(b, f)

SameMessages(xs, ys) ==
  /\ Len(xs) = Len(ys)
  /\ \A i \in 1..Len(xs) : SameMessage(xs[i], ys[i])

\* ------------------------------------------------------------ store: lists
\* RPUSH key value
RPushLeft(list, v) == <<v>> \o list
RPush(list, v) == Append(list, v)

\* LRANGE key 0 -1
LRangeAll(list) == list

\* DEL key (a list key)
DelKeeps(list) == list
DelList(list) == <<>>

\* ------------------------------------------------- RedisStateManager: queue
\* The state manager's operations are written once, as the effect of each
\* awaited store command on the queue state; the actions below and the
\* socket's emit use them.

\* enqueueMessage, first await: RPUSH. A key created by RPUSH has no expiry.
EnqueueRPushOp(c, sid, m) ==
  /\ enqPc[c] = "idle"
  /\ queue' = [queue EXCEPT ![sid] = RPush(@, Stringify(m))]
  /\ sent' = [sent EXCEPT ![sid] = Append(@, m)]
  /\ qExp' = [qExp EXCEPT ![sid] = IF queue[sid] = <<>> THEN FALSE ELSE @]
  /\ pushed' = pushed \cup {m.data}
  /\ enqPc' = [enqPc EXCEPT ![c] = "rpushed"]
  /\ enqSid' = [enqSid EXCEPT ![c] = sid]
  /\ deqClean' = [deqClean EXCEPT ![sid] = IF deqPc[sid] = "read" THEN FALSE ELSE @]
  /\ UNCHANGED <<deqPc, deqBuf, drained, deqExpected, deqDone, returnedCnt>>

\* enqueueMessage, second await: EXPIRE (no effect on a missing key)
EnqueueExpireOp(c) ==
  /\ enqPc[c] = "rpushed"
  /\ qExp' = [qExp EXCEPT ![enqSid[c]] = IF queue[enqSid[c]] = <<>> THEN @ ELSE TRUE]
  /\ enqPc' = [enqPc EXCEPT ![c] = "idle"]
  /\ enqSid' = [enqSid EXCEPT ![c] = "s1"]
  /\ UNCHANGED <<queue, deqPc, deqBuf, drained,
                 sent, deqExpected, deqClean, deqDone, pushed, returnedCnt>>

\* dequeueMessages, first await: LRANGE 0 -1
DequeueLRangeOp(sid) ==
  /\ deqPc[sid] = "idle"
  /\ deqBuf' = [deqBuf EXCEPT ![sid] = LRangeAll(queue[sid])]
  /\ deqPc' = [deqPc EXCEPT ![sid] = "read"]
  /\ deqExpected' = [deqExpected EXCEPT ![sid] = sent[sid]]
  /\ deqClean' = [deqClean EXCEPT ![sid] = TRUE]
  /\ UNCHANGED <<queue, qExp, enqPc, enqSid, drained, sent, deqDone, pushed, returnedCnt>>

\* dequeueMessages, second await: DEL, then the parsed messages are returned
DequeueDelOp(sid) ==
  /\ deqPc[sid] = "read"
  /\ queue' = [queue EXCEPT ![sid] = DelList(@)]
  /\ qExp' = [qExp EXCEPT ![sid] = IF DelList(queue[sid]) = <<>> THEN FALSE ELSE @]
  /\ drained' = [drained EXCEPT ![sid] = ParseAll(deqBuf[sid])]
  /\ deqPc' = [deqPc EXCEPT ![sid] = "idle"]
  /\ deqBuf' = [deqBuf EXCEPT ![sid] = <<>>]
  /\ sent' = [sent EXCEPT ![sid] = <<>>]
  /\ deqDone' = [deqDone EXCEPT ![sid] = TRUE]
  /\ returnedCnt' = [k \in MsgNums |->
       returnedCnt[k] + Cardinality({i \in 1..Len(deqBuf[sid]) : deqBuf[sid][i].data = k})]
  /\ UNCHANGED <<enqPc, enqSid, deqExpected, deqClean, pushed>>

\* ----------------------------------------------- UpstashStateManager: queue
\* The REST pipeline carries its commands in one request; the store runs them
\* back to back.

\* enqueueMessage: pipeline [RPUSH, EXPIRE]
UpstashEnqueueOp(sid, m) ==
  /\ queue' = [queue EXCEPT ![sid] = RPush(@, Stringify(m))]
  /\ sent' = [sent EXCEPT ![sid] = Append(@, m)]
  /\ qExp' = [qExp EXCEPT ![sid] = TRUE]
  /\ pushed' = pushed \cup {m.data}
  /\ deqClean' = [deqClean EXCEPT ![sid] = IF deqPc[sid] = "read" THEN FALSE ELSE @]
  /\ UNCHANGED <<enqPc, enqSid, deqPc, deqBuf, drained, deqExpected, deqDone, returnedCnt>>

\* dequeueMessages: pipeline [LRANGE 0 -1, DEL]; (messages || []).map(JSON.parse)
UpstashDequeueOp(sid) ==
  /\ LET got == LRangeAll(queue[sid]) IN
       /\ drained' = [drained EXCEPT ![sid] = ParseAll(got)]
       /\ returnedCnt' = [k \in MsgNums |->
            returnedCnt[k] + Cardinality({i \in 1..Len(got) : got[i].data = k})]
  /\ queue' = [queue EXCEPT ![sid] = DelList(@)]
  /\ qExp' = [qExp EXCEPT ![sid] = IF DelList(queue[sid]) = <<>> THEN FALSE ELSE @]
  /\ deqExpected' = [deqExpected EXCEPT ![sid] = sent[sid]]
  /\ deqClean' = [deqClean EXCEPT ![sid] = TRUE]
  /\ sent' = [sent EXCEPT ![sid] = <<>>]
  /\ deqDone' = [deqDone EXCEPT ![sid] = TRUE]
  /\ UNCHANGED <<enqPc, enqSid, deqPc, deqBuf, pushed>>

\* ---- the state manager called directly (the calls of its own test suite)
EnqueueRPush(c, sid, withAck) ==
  /\ backend = "redis"
  /\ nextMsg <= MaxMsgs
  /\ EnqueueRPushOp(c, sid, Message(nextMsg, sid, withAck, nextMsg))
  /\ nextMsg' = nextMsg + 1
  /\ UNCHANGED frameQueue

EnqueueExpire(c) ==
  /\ EnqueueExpireOp(c)
  /\ UNCHANGED nextMsg
  /\ UNCHANGED frameQueue

DequeueLRange(sid) ==
  /\ backend = "redis"
  /\ DequeueLRangeOp(sid)
  /\ UNCHANGED nextMsg
  /\ UNCHANGED frameQueue

DequeueDel(sid) ==
  /\ DequeueDelOp(sid)
  /\ UNCHANGED nextMsg
  /\ UNCHANGED frameQueue

UpstashEnqueueMessage(sid, withAck) ==
  /\ backend = "upstash"
  /\ nextMsg <= MaxMsgs
  /\ UpstashEnqueueOp(sid, Message(nextMsg, sid, withAck, nextMsg))
  /\ nextMsg' = nextMsg + 1
  /\ UNCHANGED frameQueue

UpstashDequeueMessages(sid) ==
  /\ backend = "upstash"
  /\ UpstashDequeueOp(sid)
  /\ UNCHANGED nextMsg
  /\ UNCHANGED frameQueue

InitQueue ==
  /\ queue = [s \in Sessions |-> <<>>]
  /\ qExp = [s \in Sessions |-> FALSE]
  /\ nextMsg = 1
  /\ enqPc = [c \in Callers |-> "idle"]
  /\ enqSid = [c \in Callers |-> "s1"]
  /\ deqPc = [s \in Sessions |-> "idle"]
  /\ deqBuf = [s \in Sessions |-> <<>>]
  /\ drained = [s \in Sessions |-> <<>>]
  /\ sent = [s \in Sessions |-> <<>>]
  /\ deqExpected = [s \in Sessions |-> <<>>]
  /\ deqClean = [s \in Sessions |-> TRUE]
  /\ deqDone = [s \in Sessions |-> FALSE]
  /\ pushed = {}
  /\ returnedCnt = [k \in MsgNums |-> 0]

\* ----------------------------------------------------------- store: strings
\* SETEX key ttl value: the key expires ttl seconds from now
SetExKeepTtl(remaining) == IF remaining = 0 THEN Ttl ELSE remaining
SetEx(remaining) == Ttl

\* GET key: null when the key is absent
Get(sid) == IF sid \in live THEN "state" ELSE "null"

\* ------------------------------------------------------------ store: sets
\* SADD key member / SREM key member / SMEMBERS key / DEL key (a set key)
SAdd(set, v) == set \cup {v}
SRemNothing(set, v) == set
SRem(set, v) == set \ {v}
SMembers(set) == set

\* another request's command on the pair (sid, room) ends the "undisturbed"
\* observation of every other caller working on that pair
Disturb(c, sid, room) ==
  [d \in Callers |->
     IF d # c /\ rmSid[d] = sid /\ rmRoom[d] = room THEN FALSE ELSE rmClean[d]]

\* -------------------------------------------------- RedisStateManager: rooms
\* joinRoom, first await: SADD ss:room:<room> sessionId
JoinSAddRoom(c, sid, room) ==
  /\ backend = "redis"
  /\ rmPc[c] = "idle"
  /\ roomMembers' = [roomMembers EXCEPT ![room] = SAdd(@, sid)]
  /\ rmPc' = [rmPc EXCEPT ![c] = "join2"]
  /\ rmSid' = [rmSid EXCEPT ![c] = sid]
  /\ rmRoom' = [rmRoom EXCEPT ![c] = room]
  /\ rmLast' = [rmLast EXCEPT ![c] = "none"]
  /\ rmClean' = [Disturb(c, sid, room) EXCEPT ![c] = TRUE]
  /\ UNCHANGED <<live, recVars, sessionRooms>>
  /\ UNCHANGED <<frameRoom, queueVars>>

\* joinRoom, second await: SADD ss:<sid>:rooms room
JoinSAddSession(c) ==
  /\ rmPc[c] = "join2"
  /\ sessionRooms' = [sessionRooms EXCEPT ![rmSid[c]] = SAdd(@, rmRoom[c])]
  /\ rmPc' = [rmPc EXCEPT ![c] = "idle"]
  /\ rmLast' = [rmLast EXCEPT ![c] = "joined"]
  /\ rmClean' = Disturb(c, rmSid[c], rmRoom[c])
  /\ UNCHANGED <<live, recVars, roomMembers, rmSid, rmRoom>>
  /\ UNCHANGED <<frameRoom, queueVars>>

\* leaveRoom, first await: SREM ss:room:<room> sessionId
LeaveSRemRoom(c, sid, room) ==
  /\ backend = "redis"
  /\ rmPc[c] = "idle"
  /\ roomMembers' = [roomMembers EXCEPT ![room] = SRem(@, sid)]
  /\ rmPc' = [rmPc EXCEPT ![c] = "leave2"]
  /\ rmSid' = [rmSid EXCEPT ![c] = sid]
  /\ rmRoom' = [rmRoom EXCEPT ![c] = room]
  /\ rmLast' = [rmLast EXCEPT ![c] = "none"]
  /\ rmClean' = [Disturb(c, sid, room) EXCEPT ![c] = TRUE]
  /\ UNCHANGED <<live, recVars, sessionRooms>>
  /\ UNCHANGED <<frameRoom, queueVars>>

\* leaveRoom, second await: SREM ss:<sid>:rooms room
LeaveSRemSession(c) ==
  /\ rmPc[c] = "leave2"
  /\ sessionRooms' = [sessionRooms EXCEPT ![rmSid[c]] = SRem(@, rmRoom[c])]
  /\ rmPc' = [rmPc EXCEPT ![c] = "idle"]
  /\ rmLast' = [rmLast EXCEPT ![c] = "left"]
  /\ rmClean' = Disturb(c, rmSid[c], rmRoom[c])
  /\ UNCHANGED <<live, recVars, roomMembers, rmSid, rmRoom>>
  /\ UNCHANGED <<frameRoom, queueVars>>

\* getRoomMembers / getSessionRooms: SMEMBERS
GetRoomMembers(room) == SMembers(roomMembers[room])
GetSessionRooms(sid) == SMembers(sessionRooms[sid])

\* createSession: SETEX ss:<sid>:state
CreateSession(sid) ==
  /\ sid \notin live
  /\ live' = live \cup {sid}
  /\ sessTtl' = [sessTtl EXCEPT ![sid] = SetEx(@)]
  /\ created' = created \cup {sid}
  /\ sinceWrite' = [sinceWrite EXCEPT ![sid] = 0]
  /\ age' = [age EXCEPT ![sid] = 0]
  /\ UNCHANGED deleted
  /\ UNCHANGED <<roomMembers, sessionRooms, rmPc, rmSid, rmRoom, rmLast, rmClean>>
  /\ UNCHANGED <<frameRoom, queueVars>>

\* DEL key
DelKeepsKey(keys, sid) == keys
DelKey(keys, sid) == keys \ {sid}

\* deleteSession: DEL ss:<sid>:state, and nothing else
DeleteSessionOp(sid) ==
  /\ live' = DelKey(live, sid)
  /\ sessTtl' = [sessTtl EXCEPT ![sid] = IF sid \in DelKey(live, sid) THEN @ ELSE 0]
  /\ deleted' = deleted \cup {sid}
  /\ UNCHANGED <<created, sinceWrite, age>>

DeleteSession(sid) ==
  /\ backend = "redis"
  /\ sid \in live
  /\ DeleteSessionOp(sid)
  /\ UNCHANGED <<roomMembers, sessionRooms, rmPc, rmSid, rmRoom, rmLast, rmClean>>
  /\ UNCHANGED <<frameRoom, queueVars>>

\* ------------------------------------------------ UpstashStateManager: rooms
\* joinRoom: pipeline [SADD ss:room:<room> sid, SADD ss:<sid>:rooms room]
UpstashJoinRoom(c, sid, room) ==
  /\ backend = "upstash"
  /\ roomMembers' = [roomMembers EXCEPT ![room] = SAdd(@, sid)]
  /\ sessionRooms' = [sessionRooms EXCEPT ![sid] = SAdd(@, room)]
  /\ rmSid' = [rmSid EXCEPT ![c] = sid]
  /\ rmRoom' = [rmRoom EXCEPT ![c] = room]
  /\ rmLast' = [rmLast EXCEPT ![c] = "joined"]
  /\ rmClean' = [Disturb(c, sid, room) EXCEPT ![c] = TRUE]
  /\ UNCHANGED <<live, recVars, rmPc>>
  /\ UNCHANGED <<frameRoom, queueVars>>

\* leaveRoom: pipeline [SREM ss:room:<room> sid, SREM ss:<sid>:rooms room]
UpstashLeaveRoom(c, sid, room) ==
  /\ backend = "upstash"
  /\ roomMembers' = [roomMembers EXCEPT ![room] = SRem(@, sid)]
  /\ sessionRooms' = [sessionRooms EXCEPT ![sid] = SRem(@, room)]
  /\ rmSid' = [rmSid EXCEPT ![c] = sid]
  /\ rmRoom' = [rmRoom EXCEPT ![c] = room]
  /\ rmLast' = [rmLast EXCEPT ![c] = "left"]
  /\ rmClean' = [Disturb(c, sid, room) EXCEPT ![c] = TRUE]
  /\ UNCHANGED <<live, recVars, rmPc>>
  /\ UNCHANGED <<frameRoom, queueVars>>

\* deleteSession: pipeline [DEL ss:<sid>:state, DEL ss:<sid>:queue, DEL ss:<sid>:rooms]
UpstashDeleteSessionOp(sid) ==
  /\ DeleteSessionOp(sid)
  /\ queue' = [queue EXCEPT ![sid] = DelList(@)]
  /\ qExp' = [qExp EXCEPT ![sid] = IF DelList(queue[sid]) = <<>> THEN FALSE ELSE @]
  /\ sessionRooms' = [sessionRooms EXCEPT ![sid] = {}]
  /\ rmClean' = [d \in Callers |-> IF rmSid[d] = sid THEN FALSE ELSE rmClean[d]]

UpstashDeleteSession(sid) ==
  /\ backend = "upstash"
  /\ sid \in live
  /\ UpstashDeleteSessionOp(sid)
  /\ UNCHANGED <<roomMembers, rmPc, rmSid, rmRoom, rmLast>>
  /\ UNCHANGED <<nextMsg, enqPc, enqSid, deqPc, deqBuf, drained,
                 sent, deqExpected, deqClean, deqDone, pushed, returnedCnt>>
  /\ UNCHANGED frameRoom

InitRoom ==
  /\ live = {}
  /\ roomMembers = [r \in Rooms |-> {}]
  /\ sessionRooms = [s \in Sessions |-> {}]
  /\ rmPc = [c \in Callers |-> "idle"]
  /\ rmSid = [c \in Callers |-> "s1"]
  /\ rmRoom = [c \in Callers |-> "r1"]
  /\ rmLast = [c \in Callers |-> "none"]
  /\ rmClean = [c \in Callers |-> TRUE]

\* ---------------------------------------------------------------- pub/sub
\* publish(channel, message): PUBLISH. The GET handler of the adapter holds a
\* subscription to ss:channel:<sessionId> only; its callback writes the message
\* to the stream of that session.
SubscribersOf(channel) == {s \in subs : s = channel}

PublishOp(channel, m) ==
  /\ pubCnt' = [pubCnt EXCEPT ![channel][m.data] = @ + 1]
  /\ streamed' = [s \in Sessions |->
       IF s \in SubscribersOf(channel) THEN Append(streamed[s], Stringify(m)) ELSE streamed[s]]
  /\ UNCHANGED subs

\* ------------------------------------------------ ServerSocketImpl: emit, ack
\* emit up to its first await: the message is built; with an ack callback a
\* messageId is generated, the callback registered and the 5 s timer started.
\* `throws` is the behaviour of the callback the application passed.
EmitPublishFirst == "publish"
EmitFirstAwait == "enqueue"

EmitBegin(c, sid, withAck, throws) ==
  /\ emPc[c] = "idle"
  /\ nextMsg <= MaxMsgs
  /\ LET m == Message(nextMsg, sid, withAck, nextMsg) IN
       /\ emMsg' = [emMsg EXCEPT ![c] = m]
       /\ IF withAck
            THEN /\ ackCallbacks' = ackCallbacks \cup {m.messageId}
                 /\ ackTimers' = ackTimers \cup {m.messageId}
                 /\ cbThrows' = IF throws THEN cbThrows \cup {m.messageId} ELSE cbThrows
            ELSE UNCHANGED <<ackCallbacks, ackTimers, cbThrows>>
  /\ emPc' = [emPc EXCEPT ![c] = EmitFirstAwait]
  /\ nextMsg' = nextMsg + 1
  /\ UNCHANGED <<queue, qExp, enqPc, enqSid, deqPc, deqBuf, drained,
                 sent, deqExpected, deqClean, deqDone, pushed, returnedCnt>>
  /\ UNCHANGED <<cbResp, cbTimeout, pubsubVars, emTarget, emOffline>>
  /\ UNCHANGED frameEmit

\* await stateManager.enqueueMessage(this.id, message), Redis: RPUSH
EmitEnqueueRPush(c) ==
  /\ backend = "redis"
  /\ emPc[c] = "enqueue"
  /\ EnqueueRPushOp(c, emMsg[c].sessionId, emMsg[c])
  /\ emPc' = [emPc EXCEPT ![c] = "expire"]
  /\ UNCHANGED <<nextMsg, emMsg, ackVars, pubsubVars, emTarget, emOffline>>
  /\ UNCHANGED frameEmit

\* ... Redis: EXPIRE
EmitEnqueueExpire(c) ==
  /\ emPc[c] = "expire"
  /\ EnqueueExpireOp(c)
  /\ emPc' = [emPc EXCEPT ![c] = "publish"]
  /\ UNCHANGED <<nextMsg, emMsg, ackVars, pubsubVars, emTarget, emOffline>>
  /\ UNCHANGED frameEmit

\* await stateManager.enqueueMessage(this.id, message), Upstash: one pipeline
EmitUpstashEnqueue(c) ==
  /\ backend = "upstash"
  /\ emPc[c] = "enqueue"
  /\ UpstashEnqueueOp(emMsg[c].sessionId, emMsg[c])
  /\ emPc' = [emPc EXCEPT ![c] = "publish"]
  /\ UNCHANGED <<nextMsg, emMsg, ackVars, pubsubVars, emTarget, emOffline>>
  /\ UNCHANGED frameEmit

\* await stateManager.publish(redisKeys.channel(this.id), message)
EmitPublish(c) ==
  /\ emPc[c] = "publish"
  /\ PublishOp(emMsg[c].sessionId, emMsg[c])
  /\ emPc' = [emPc EXCEPT ![c] = "idle"]
  /\ emMsg' = [emMsg EXCEPT ![c] = NoMessage]
  /\ emTarget' = [emTarget EXCEPT ![emMsg[c].data] = emMsg[c].sessionId]
  /\ emOffline' = [emOffline EXCEPT ![emMsg[c].data] =
       emMsg[c].sessionId = cId /\ ~cConnected /\ cId \notin subs]
  /\ UNCHANGED <<queueVars, ackVars>>
  /\ UNCHANGED frameEmit

\* -------------------------------------------------- EnhancedServerSocket: emit
\* emit up to Promise.all([enqueueMessage(...), publish(...)]): both calls are
\* started, so RPUSH and then PUBLISH are written to the one connection of
\* the RedisStateManager; EXPIRE is written when the reply to RPUSH is in
EnhancedEmitBegin(c, sid) ==
  /\ backend = "redis"
  /\ emPc[c] = "idle"
  /\ nextMsg <= MaxMsgs
  /\ emMsg' = [emMsg EXCEPT ![c] = Message(nextMsg, sid, FALSE, nextMsg)]
  /\ emPc' = [emPc EXCEPT ![c] = "enh_rpush"]
  /\ nextMsg' = nextMsg + 1
  /\ UNCHANGED <<queue, qExp, enqPc, enqSid, deqPc, deqBuf, drained,
                 sent, deqExpected, deqClean, deqDone, pushed, returnedCnt>>
  /\ UNCHANGED <<ackVars, pubsubVars, emTarget, emOffline>>
  /\ UNCHANGED frameEmit

\* the store runs the connection's commands in the order they were written: RPUSH
EnhancedEmitRPush(c) ==
  /\ emPc[c] = "enh_rpush"
  /\ EnqueueRPushOp(c, emMsg[c].sessionId, emMsg[c])
  /\ emPc' = [emPc EXCEPT ![c] = "enh_publish"]
  /\ UNCHANGED <<nextMsg, emMsg, ackVars, pubsubVars, emTarget, emOffline>>
  /\ UNCHANGED frameEmit

\* ... PUBLISH
EnhancedEmitPublish(c) ==
  /\ emPc[c] = "enh_publish"
  /\ PublishOp(emMsg[c].sessionId, emMsg[c])
  /\ emPc' = [emPc EXCEPT ![c] = "enh_expire"]
  /\ emTarget' = [emTarget EXCEPT ![emMsg[c].data] = emMsg[c].sessionId]
  /\ emOffline' = [emOffline EXCEPT ![emMsg[c].data] =
       emMsg[c].sessionId = cId /\ ~cConnected /\ cId \notin subs]
  /\ UNCHANGED <<queueVars, ackVars, emMsg>>
  /\ UNCHANGED frameEmit

\* ... EXPIRE, and Promise.all resolves
EnhancedEmitExpire(c) ==
  /\ emPc[c] = "enh_expire"
  /\ EnqueueExpireOp(c)
  /\ emPc' = [emPc EXCEPT ![c] = "idle"]
  /\ emMsg' = [emMsg EXCEPT ![c] = NoMessage]
  /\ UNCHANGED <<nextMsg, ackVars, pubsubVars, emTarget, emOffline>>
  /\ UNCHANGED frameEmit

\* ------------------------------------------------------ EdgeServerSocket: emit
\* enqueueAndPublish: one pipeline [RPUSH, EXPIRE, PUBLISH]
EdgeEmit(c, sid) ==
  /\ backend = "upstash"
  /\ emPc[c] = "idle"
  /\ nextMsg <= MaxMsgs
  /\ LET m == [event |-> "chat", data |-> nextMsg, timestamp |-> nextMsg, sessionId |-> sid] IN
       /\ UpstashEnqueueOp(sid, m)
       /\ PublishOp(sid, m)
  /\ nextMsg' = nextMsg + 1
  /\ emTarget' = [emTarget EXCEPT ![nextMsg] = sid]
  /\ emOffline' = [emOffline EXCEPT ![nextMsg] = sid = cId /\ ~cConnected /\ cId \notin subs]
  /\ UNCHANGED <<emitVars, ackVars>>
  /\ UNCHANGED frameEmit

\* the map after handleAck ran its callback: the entry is deleted after the
\* callback returned, so a callback that throws leaves it in place
AckedCallbacks(id) == IF id \in cbThrows THEN ackCallbacks ELSE ackCallbacks \ {id}

\* handleAck(messageId, response)
HandleAck(id) ==
  /\ cbResp[id] < MaxAckCalls
  /\ IF id \in ackCallbacks
       THEN /\ cbResp' = [cbResp EXCEPT ![id] = @ + 1]
            /\ ackCallbacks' = AckedCallbacks(id)
       ELSE UNCHANGED <<cbResp, ackCallbacks>>
  /\ UNCHANGED <<ackTimers, cbThrows, cbTimeout>>
  /\ UNCHANGED <<queueVars, pubsubVars, emitVars, emTarget, emOffline>>
  /\ UNCHANGED frameEmit

\* the setTimeout(..., 5000) callback of emit
AckTimeout(id) ==
  /\ id \in ackTimers
  /\ ackTimers' = ackTimers \ {id}
  /\ IF id \in ackCallbacks
       THEN /\ ackCallbacks' = ackCallbacks \ {id}
            /\ cbTimeout' = [cbTimeout EXCEPT ![id] = @ + 1]
       ELSE UNCHANGED <<ackCallbacks, cbTimeout>>
  /\ UNCHANGED <<cbThrows, cbResp>>
  /\ UNCHANGED <<queueVars, pubsubVars, emitVars, emTarget, emOffline>>
  /\ UNCHANGED frameEmit

\* the GET handler of the adapter: the stream starts and subscribes to
\* ss:channel:<sessionId>
StreamStart(sid) ==
  /\ sid \notin subs
  /\ subs' = subs \cup {sid}
  /\ UNCHANGED <<pubCnt, streamed>>
  /\ UNCHANGED <<clientVars, obsVars>>
  /\ UNCHANGED frameStream

\* the request is aborted: the stream is closed and takes no more messages
StreamAbort(sid) ==
  /\ sid \in subs
  /\ subs' = subs \ {sid}
  /\ UNCHANGED <<pubCnt, streamed>>
  /\ UNCHANGED <<clientVars, obsVars>>
  /\ UNCHANGED frameStream

\* ------------------------------------------ broadcast and broadcastToRoom
\* the message both calls build: no messageId, no requiresAck
BroadcastMessage(k, sender, ts) ==
  [event |-> "chat", data |-> k, timestamp |-> ts, sessionId |-> sender]

\* members.filter(memberId => memberId !== this.id)
RecipientsWithSelf(members, sender) == members
Recipients(members, sender) == {memberId \in members : memberId # sender}

\* broadcastToRoom up to the end of its first await: the message is built and
\* the members of the room are read
BroadcastToRoomMembers(c, sender, room) ==
  /\ bcPc[c] = "idle"
  /\ nextMsg <= MaxMsgs
  /\ LET members == GetRoomMembers(room)
         to == Recipients(members, sender) IN
       /\ bcMsg' = [bcMsg EXCEPT ![c] = BroadcastMessage(nextMsg, sender, nextMsg)]
       /\ bcPending' = [bcPending EXCEPT ![c] = to]
       /\ bcPc' = [bcPc EXCEPT ![c] = IF to = {} THEN "idle" ELSE "publish"]
       /\ bcSnap' = [bcSnap EXCEPT ![nextMsg] = members]
       /\ bcDone' = [bcDone EXCEPT ![nextMsg] = (to = {})]
  /\ bcKind' = [bcKind EXCEPT ![nextMsg] = "room"]
  /\ bcSender' = [bcSender EXCEPT ![nextMsg] = sender]
  /\ nextMsg' = nextMsg + 1
  /\ UNCHANGED <<bcSubs, pubsubVars>>
  /\ UNCHANGED frameBroadcast

\* one publish(redisKeys.channel(memberId), message) of broadcastToRoom; the
\* call resolves with the last of them
BroadcastToRoomPublish(c, memberId) ==
  /\ bcPc[c] = "publish"
  /\ memberId \in bcPending[c]
  /\ PublishOp(memberId, bcMsg[c])
  /\ bcPending' = [bcPending EXCEPT ![c] = @ \ {memberId}]
  /\ bcPc' = [bcPc EXCEPT ![c] = IF bcPending[c] = {memberId} THEN "idle" ELSE "publish"]
  /\ bcDone' = [bcDone EXCEPT ![bcMsg[c].data] = (bcPending[c] = {memberId})]
  /\ UNCHANGED <<bcMsg, bcKind, bcSender, bcSnap, bcSubs, nextMsg>>
  /\ UNCHANGED frameBroadcast

\* broadcast: publish(redisKeys.channel("broadcast"), message)
Broadcast(sender) ==
  /\ nextMsg <= MaxMsgs
  /\ PublishOp("broadcast", BroadcastMessage(nextMsg, sender, nextMsg))
  /\ bcKind' = [bcKind EXCEPT ![nextMsg] = "all"]
  /\ bcSender' = [bcSender EXCEPT ![nextMsg] = sender]
  /\ bcSubs' = [bcSubs EXCEPT ![nextMsg] = subs]
  /\ bcDone' = [bcDone EXCEPT ![nextMsg] = TRUE]
  /\ nextMsg' = nextMsg + 1
  /\ UNCHANGED <<bcPc, bcMsg, bcPending, bcSnap>>
  /\ UNCHANGED frameBroadcast

InitBroadcast ==
  /\ bcPc = [c \in Callers |-> "idle"]
  /\ bcMsg = [c \in Callers |-> NoMessage]
  /\ bcPending = [c \in Callers |-> {}]
  /\ bcKind = [k \in MsgNums |-> "none"]
  /\ bcSender = [k \in MsgNums |-> "s1"]
  /\ bcSnap = [k \in MsgNums |-> {}]
  /\ bcSubs = [k \in MsgNums |-> {}]
  /\ bcDone = [k \in MsgNums |-> FALSE]

\* ------------------------------------------ EnhancedClientSocket, server side
MaxReconnectAttempts == 10

\* handleMessage(message) on the client state st = [processed, lastTs, handled]:
\* a message whose messageId was seen is dropped; otherwise the id is noted,
\* lastMessageTimestamp raised and the handlers of the event run
Max(a, b) == IF a >= b THEN a ELSE b

\* this.processedMessages.has(message.messageId)
SeenNever(processed, id) == FALSE
Seen(processed, id) == SetHas(processed, id)

HandleMessage(st, message) ==
  LET id == Field(message, "messageId") IN
  IF id # Undefined /\ Seen(st.processed, id)
    THEN st
    ELSE [processed |-> IF id # Undefined THEN SetAdd(st.processed, id) ELSE st.processed,
          lastTs |-> IF message.timestamp # 0
                       THEN Max(st.lastTs, message.timestamp) ELSE st.lastTs,
          handled |-> [st.handled EXCEPT ![message.data] = @ + 1]]

\* missedMessages.forEach(msg => this.handleMessage(msg))
RECURSIVE HandleAll(_, _)
HandleAll(st, messages) ==
  IF messages = <<>> THEN st
  ELSE HandleAll(HandleMessage(st, Head(messages)), Tail(messages))

ClientState == [processed |-> cProcessed, lastTs |-> cLastTs, handled |-> cHandled]

\* messages.filter(m => m.timestamp > options.lastMessageTimestamp)
RECURSIVE MissedAfter(_, _)
MissedAfter(messages, ts) ==
  IF messages = <<>> THEN <<>>
  ELSE IF Head(messages).timestamp > ts
         THEN <<Head(messages)>> \o MissedAfter(Tail(messages), ts)
         ELSE MissedAfter(Tail(messages), ts)

\* generateSessionId(): 16 random bytes, an id no session has
FreshIds == Sessions \ created

\* connect() posts /connect with lastMessageTimestamp, and handleConnect runs
\* up to the end of createSession: a new session id is generated and the
\* session created. The first connect is the application's, a later one the
\* reconnect timer's.
HandleConnectCreate(sid) ==
  /\ hcPc = "idle"
  /\ ~cConnected
  /\ cId = "none" \/ cReconnectTimer
  /\ sid \in FreshIds
  /\ live' = live \cup {sid}
  /\ sessTtl' = [sessTtl EXCEPT ![sid] = SetEx(@)]
  /\ created' = created \cup {sid}
  /\ sinceWrite' = [sinceWrite EXCEPT ![sid] = 0]
  /\ age' = [age EXCEPT ![sid] = 0]
  /\ UNCHANGED deleted
  /\ hcSid' = sid
  /\ hcTs' = cLastTs
  /\ hcMissed' = <<>>
  /\ hcPc' = "middleware"
  /\ cReconnectTimer' = FALSE
  /\ hcBefore' = {k \in MsgNums : cId # "none" /\ emTarget[k] = cId}
  /\ UNCHANGED <<cId, cConnected, cEventSource, cCursor, cAttempts, cLastTs, cProcessed, cHandled>>
  /\ UNCHANGED <<queue, qExp, enqPc, enqSid, deqPc, deqBuf, drained,
                 sent, deqExpected, deqClean, deqDone, pushed, returnedCnt>>
  /\ UNCHANGED <<emTarget, emOffline, reconnected, missedCnt, cSentTs, mwVars>>
  /\ UNCHANGED frameConnect

\* await this.middleware.execute(ctx): the chain passes, or one of its
\* functions throws and the catch block takes over
HandleConnectMiddlewareOp(rejects) ==
  /\ hcPc = "middleware"
  /\ hcPc' = IF rejects THEN "rollback" ELSE IF hcTs # 0 THEN "dequeue" ELSE "respond"
  /\ hcRejected' = IF rejects THEN hcRejected \cup {hcSid} ELSE hcRejected
  /\ UNCHANGED <<hcSid, hcTs, hcMissed, hcTimers, onConnectRan>>
  /\ UNCHANGED <<live, recVars, clientVars, obsVars>>
  /\ UNCHANGED <<queue, qExp, enqPc, enqSid, deqPc, deqBuf, drained,
                 sent, deqExpected, deqClean, deqDone, pushed, returnedCnt>>

HandleConnectMiddleware(rejects) ==
  /\ HandleConnectMiddlewareOp(rejects)
  /\ UNCHANGED frameConnect

\* ------------------------------------------------------------ MiddlewareChain
\* the middlewares an application registers: authMiddleware, one that only
\* awaits next() (loggingMiddleware), errorHandlerMiddleware, one that throws
\* (a rate limit or validation failure) and one that awaits next(error)
MiddlewareKinds == {"auth", "pass", "catch", "throw", "nexterr"}
Tokens == {"missing", "bad", "good"}

\* next() called with index i: the middleware at i runs and may call next()
\* for the one after it; what was invoked and whether the call rejects
RECURSIVE NextFrom(_, _, _)
NextFrom(chain, i, token) ==
  IF i > Len(chain) THEN [ran |-> <<>>, rejected |-> FALSE]
  ELSE LET rest == NextFrom(chain, i + 1, token)
           through == [ran |-> <<i>> \o rest.ran, rejected |-> rest.rejected]
           thrown == [ran |-> <<i>>, rejected |-> TRUE]
       IN CASE chain[i] = "pass" -> through
            [] chain[i] = "auth" -> IF token = "good" THEN through ELSE thrown
            [] chain[i] = "throw" -> thrown
            [] chain[i] = "nexterr" -> thrown
            [] chain[i] = "catch" -> [ran |-> <<i>> \o rest.ran, rejected |-> FALSE]

\* execute(ctx): let index = 0; await next()
Execute(chain, token) == NextFrom(chain, 1, token)

\* server.use(middleware), while the server is set up
Use(kind) ==
  /\ created = {}
  /\ Len(mwChain) < MaxChain
  /\ mwChain' = Append(mwChain, kind)
  /\ UNCHANGED <<mwToken, mwRan, mwResult>>
  /\ UNCHANGED <<live, queueVars, connectVars, clientVars, obsVars, recVars, mwVars>>
  /\ UNCHANGED frameConnectChain

\* handleConnect: await this.middleware.execute(ctx) with the request's token
HandleConnectExecute(token) ==
  /\ HandleConnectMiddlewareOp(Execute(mwChain, token).rejected)
  /\ mwToken' = [mwToken EXCEPT ![hcSid] = token]
  /\ mwRan' = Execute(mwChain, token).ran
  /\ mwResult' = IF Execute(mwChain, token).rejected THEN "rejected" ELSE "resolved"
  /\ UNCHANGED mwChain
  /\ UNCHANGED frameConnectChain

InitChain ==
  /\ mwChain = <<>>
  /\ mwToken = [s \in Sessions |-> "unset"]
  /\ mwRan = <<>>
  /\ mwResult = "none"

\* catch (error) { await this.stateManager.deleteSession(sessionId); throw error; }
HandleConnectRollback ==
  /\ hcPc = "rollback"
  /\ IF backend = "redis"
       THEN DeleteSessionOp(hcSid) /\ UNCHANGED <<queue, qExp, sessionRooms, rmClean>>
       ELSE UpstashDeleteSessionOp(hcSid)
  /\ hcPc' = "failed"
  /\ UNCHANGED <<hcSid, hcTs, hcMissed>>
  /\ UNCHANGED frameRollback

\* the error response arrives: connect() catches it and calls handleReconnect
ClientConnectFailed ==
  /\ hcPc = "failed"
  /\ hcPc' = "idle"
  /\ hcBefore' = {}
  /\ IF cAttempts >= MaxReconnectAttempts
       THEN UNCHANGED <<cAttempts, cReconnectTimer>>
       ELSE /\ cAttempts' = cAttempts + 1
            /\ cReconnectTimer' = TRUE
  /\ UNCHANGED <<hcSid, hcTs, hcMissed, mwVars>>
  /\ UNCHANGED <<cId, cConnected, cEventSource, cCursor, cLastTs, cProcessed, cHandled>>
  /\ UNCHANGED <<emTarget, emOffline, reconnected, missedCnt, cSentTs, live, recVars>>
  /\ UNCHANGED <<queue, qExp, enqPc, enqSid, deqPc, deqBuf, drained,
                 sent, deqExpected, deqClean, deqDone, pushed, returnedCnt>>
  /\ UNCHANGED frameConnect

\* the setTimeout callback of handleConnect: ns.handleConnection(socket) and
\* the global connect handler
ConnectHandlersRunOp(sid) ==
  /\ sid \in hcTimers
  /\ hcTimers' = hcTimers \ {sid}
  /\ onConnectRan' = onConnectRan \cup {sid}
  /\ UNCHANGED hcRejected

ConnectHandlersRun(sid) ==
  /\ ConnectHandlersRunOp(sid)
  /\ UNCHANGED frameTimer

\* EnhancedSocketServer's callback for a connect with options.namespace = ns:
\* ns.handleConnection(socket) puts the socket into the namespace's map and
\* runs the namespace's connect handler, then the global one runs
EnhancedConnectHandlersRun(sid, ns) ==
  /\ ConnectHandlersRunOp(sid)
  /\ nsSockets' = [nsSockets EXCEPT ![ns] = @ \cup {sid}]
  /\ UNCHANGED frameTimerNs

\* if (options?.lastMessageTimestamp) dequeueMessages(sessionId), Redis: LRANGE
HandleConnectLRange ==
  /\ backend = "redis"
  /\ hcPc = "dequeue"
  /\ DequeueLRangeOp(hcSid)
  /\ hcPc' = "del"
  /\ UNCHANGED <<hcSid, hcTs, hcMissed, live, recVars, clientVars, obsVars, mwVars>>
  /\ UNCHANGED frameConnect

\* ... Redis: DEL, then the filter on the messages returned
HandleConnectDel ==
  /\ hcPc = "del"
  /\ DequeueDelOp(hcSid)
  /\ hcMissed' = MissedAfter(drained'[hcSid], hcTs)
  /\ hcPc' = "respond"
  /\ UNCHANGED <<hcSid, hcTs, live, recVars, clientVars, obsVars, mwVars>>
  /\ UNCHANGED frameConnect

\* ... Upstash: one pipeline, then the filter
HandleConnectUpstashDequeue ==
  /\ backend = "upstash"
  /\ hcPc = "dequeue"
  /\ UpstashDequeueOp(hcSid)
  /\ hcMissed' = MissedAfter(drained'[hcSid], hcTs)
  /\ hcPc' = "respond"
  /\ UNCHANGED <<hcSid, hcTs, live, recVars, clientVars, obsVars, mwVars>>
  /\ UNCHANGED frameConnect

\* handleConnect sets the timer for the connect handlers and returns; the
\* response arrives: the client takes the new session id, handles the missed
\* messages and opens its EventSource
ClientConnectedOp ==
  /\ hcPc = "respond"
  /\ hcTimers' = hcTimers \cup {hcSid}
  /\ UNCHANGED <<hcRejected, onConnectRan>>
  /\ LET st == HandleAll(ClientState, hcMissed) IN
       /\ cProcessed' = st.processed
       /\ cLastTs' = st.lastTs
       /\ cHandled' = st.handled
  /\ cId' = hcSid
  /\ cConnected' = TRUE
  /\ cAttempts' = 0
  /\ hcPc' = "idle"
  /\ hcMissed' = <<>>
  /\ cSentTs' = hcTs
  /\ reconnected' = [k \in MsgNums |-> reconnected[k] \/ k \in hcBefore]
  /\ hcBefore' = {}
  /\ missedCnt' = [k \in MsgNums |->
       missedCnt[k] + Cardinality({i \in 1..Len(hcMissed) : hcMissed[i].data = k})]
  /\ UNCHANGED <<hcSid, hcTs, cReconnectTimer, emTarget, emOffline, live, recVars>>
  /\ UNCHANGED <<queue, qExp, enqPc, enqSid, deqPc, deqBuf, drained,
                 sent, deqExpected, deqClean, deqDone, pushed, returnedCnt>>

\* ... and this.transport is "sse": startSSE() opens an EventSource
ClientConnected ==
  /\ cTransport = "sse"
  /\ ClientConnectedOp
  /\ cEventSource' = TRUE
  /\ cCursor' = Len(streamed[hcSid])
  /\ UNCHANGED frameConnect

\* ... and this.transport is "polling": startPolling() polls and sets an
\* interval, whose handle replaces this.pollingInterval
ClientConnectedPolling ==
  /\ cTransport = "polling"
  /\ cNextInterval <= MaxIntervals
  /\ ClientConnectedOp
  /\ cPollingInterval' = cNextInterval
  /\ cIntervals' = cIntervals \cup {cNextInterval}
  /\ cNextInterval' = cNextInterval + 1
  /\ UNCHANGED <<cEventSource, cCursor, cTransport>>
  /\ UNCHANGED frameConnectPolling

\* a poll of a running interval fails: a connected client marks itself
\* disconnected and calls handleReconnect; the interval keeps running
ClientPollFails(i) ==
  /\ i \in cIntervals
  /\ IF cConnected
       THEN /\ cConnected' = FALSE
            /\ IF cAttempts >= MaxReconnectAttempts
                 THEN UNCHANGED <<cAttempts, cReconnectTimer>>
                 ELSE /\ cAttempts' = cAttempts + 1
                      /\ cReconnectTimer' = TRUE
       ELSE UNCHANGED <<cConnected, cAttempts, cReconnectTimer>>
  /\ UNCHANGED <<cId, cEventSource, cCursor, cLastTs, cProcessed, cHandled>>
  /\ UNCHANGED <<pubsubVars, transVars>>
  /\ UNCHANGED frameTransport

\* switchTransport(transport): nothing if it is the current one; otherwise the
\* EventSource is closed, the interval this.pollingInterval names is cleared,
\* and a connected client starts the new transport
ClientSwitchTransport(transport) ==
  /\ cTransport # transport
  /\ transport = "polling" /\ cConnected => cNextInterval <= MaxIntervals
  /\ cTransport' = transport
  /\ subs' = IF cEventSource THEN subs \ {cId} ELSE subs
  /\ IF cConnected /\ transport = "sse" /\ cId # "none"
       THEN /\ cEventSource' = TRUE
            /\ cCursor' = Len(streamed[cId])
       ELSE /\ cEventSource' = FALSE
            /\ UNCHANGED cCursor
  /\ IF cConnected /\ transport = "polling" /\ cId # "none"
       THEN /\ cPollingInterval' = cNextInterval
            /\ cIntervals' = (cIntervals \ {cPollingInterval}) \cup {cNextInterval}
            /\ cNextInterval' = cNextInterval + 1
       ELSE /\ cPollingInterval' = 0
            /\ cIntervals' = cIntervals \ {cPollingInterval}
            /\ UNCHANGED cNextInterval
  /\ UNCHANGED <<cId, cConnected, cReconnectTimer, cAttempts, cLastTs, cProcessed, cHandled>>
  /\ UNCHANGED <<pubCnt, streamed>>
  /\ UNCHANGED frameTransport

\* startHeartbeat(): if (this.heartbeatTimer) return; otherwise setInterval
StartHeartbeat ==
  /\ cHeartbeatTimer' = TRUE
  /\ cHeartbeats' = IF cHeartbeatTimer THEN cHeartbeats ELSE cHeartbeats + 1

\* startDedupeCleanup(): this.dedupeCleanupInterval = setInterval(...), with
\* no look at the handle the field holds
StartDedupeCleanup ==
  /\ cDedupeCleanupInterval' = TRUE
  /\ cDedupeCleanups' = cDedupeCleanups + 1

\* the connect response arrives at EnhancedClientSocket.connect(): the
\* transport this.transport names is started, then the heartbeat and the
\* dedupe cleanup
ClientConnectedTimers ==
  /\ cTransport = "polling" => cNextInterval <= MaxIntervals
  /\ ClientConnectedOp
  /\ IF cTransport = "sse"
       THEN /\ cEventSource' = TRUE
            /\ cCursor' = Len(streamed[hcSid])
            /\ UNCHANGED <<cPollingInterval, cIntervals, cNextInterval>>
       ELSE /\ cPollingInterval' = cNextInterval
            /\ cIntervals' = cIntervals \cup {cNextInterval}
            /\ cNextInterval' = cNextInterval + 1
            /\ UNCHANGED <<cEventSource, cCursor>>
  /\ StartHeartbeat
  /\ StartDedupeCleanup
  /\ UNCHANGED <<cTransport, cDisconnectReturned>>
  /\ UNCHANGED frameConnectTimers

\* disconnect(): connected = false, stopHeartbeat(), stopDedupeCleanup(), the
\* EventSource is closed, the interval and the timer the fields name are
\* cleared; the POST /disconnect is sent and not awaited
ClientDisconnect ==
  /\ ~cDisconnectReturned
  /\ cConnected' = FALSE
  /\ cHeartbeatTimer' = FALSE
  /\ cHeartbeats' = IF cHeartbeatTimer THEN cHeartbeats - 1 ELSE cHeartbeats
  /\ cDedupeCleanupInterval' = FALSE
  /\ cDedupeCleanups' = IF cDedupeCleanupInterval THEN cDedupeCleanups - 1 ELSE cDedupeCleanups
  /\ cEventSource' = FALSE
  /\ subs' = IF cEventSource THEN subs \ {cId} ELSE subs
  /\ cPollingInterval' = 0
  /\ cIntervals' = cIntervals \ {cPollingInterval}
  /\ cReconnectTimer' = FALSE
  /\ cDisconnectReturned' = TRUE
  /\ UNCHANGED <<cId, cCursor, cAttempts, cLastTs, cProcessed, cHandled>>
  /\ UNCHANGED <<pubCnt, streamed, cTransport, cNextInterval>>
  /\ UNCHANGED frameTransportTimers

InitTimers ==
  /\ cHeartbeatTimer = FALSE
  /\ cHeartbeats = 0
  /\ cDedupeCleanupInterval = FALSE
  /\ cDedupeCleanups = 0
  /\ cDisconnectReturned = FALSE

\* ------------------------------------------ ClientSocketImpl, the basic client
BasicMaxReconnectAttempts == 5
BasicReconnectDelay == 1000
BasicMaxDelay == 30000

Min(a, b) == IF a <= b THEN a ELSE b

\* Math.min(this.reconnectDelay * Math.pow(2, this.reconnectAttempts), 30000)
BasicDelay(attempts) == Min(BasicReconnectDelay * 2^attempts, BasicMaxDelay)

\* handleReconnect(): nothing at the cap; otherwise the attempt is counted and
\* a timer set that will call connect()
BasicHandleReconnect ==
  IF bAttempts >= BasicMaxReconnectAttempts
    THEN UNCHANGED <<bAttempts, bTimers, bSched>>
    ELSE /\ bAttempts' = bAttempts + 1
         /\ bTimers' = bTimers + 1
         /\ bSched' = <<bAttempts + 1, BasicDelay(bAttempts + 1)>>

\* new ClientSocketImpl(baseUrl, transport) and the application's connect()
BasicStart(transport) ==
  /\ bTransport = "none"
  /\ bTransport' = transport
  /\ bConnects' = bConnects + 1
  /\ UNCHANGED <<bConnected, bAttempts, bTimers, bIntervals, bSources, bRun, bSched>>
  /\ UNCHANGED frameBasic

\* the connect request succeeds: the client is connected, the attempts are
\* reset and the transport is started
BasicConnectOk ==
  /\ bConnects > 0
  /\ IF bTransport = "sse" THEN bSources < MaxBasicTransports
                            ELSE bIntervals < MaxBasicTransports
  /\ bConnects' = bConnects - 1
  /\ bConnected' = TRUE
  /\ bAttempts' = 0
  /\ bRun' = 0
  /\ IF bTransport = "sse"
       THEN bSources' = bSources + 1 /\ UNCHANGED bIntervals
       ELSE bIntervals' = bIntervals + 1 /\ UNCHANGED bSources
  /\ UNCHANGED <<bTransport, bTimers, bSched>>
  /\ UNCHANGED frameBasic

\* the connect request fails: the catch calls handleReconnect
BasicConnectFails ==
  /\ bConnects > 0
  /\ bConnects' = bConnects - 1
  /\ BasicHandleReconnect
  /\ UNCHANGED <<bTransport, bConnected, bIntervals, bSources, bRun>>
  /\ UNCHANGED frameBasic

\* a reconnect timer fires and calls connect()
BasicTimerFires ==
  /\ bTimers > 0
  /\ bConnects < MaxInFlight
  /\ bRun <= BasicMaxReconnectAttempts
  /\ bTimers' = bTimers - 1
  /\ bConnects' = bConnects + 1
  /\ bRun' = bRun + 1
  /\ UNCHANGED <<bTransport, bConnected, bAttempts, bIntervals, bSources, bSched>>
  /\ UNCHANGED frameBasic

\* a poll of a running interval fails: the client marks itself disconnected
\* and calls handleReconnect; the interval keeps running
BasicPollFails ==
  /\ bIntervals > 0
  /\ bConnected' = FALSE
  /\ BasicHandleReconnect
  /\ UNCHANGED <<bTransport, bConnects, bIntervals, bSources, bRun>>
  /\ UNCHANGED frameBasic

\* eventSource.onerror: the EventSource is closed, the client marks itself
\* disconnected and calls handleReconnect
BasicStreamError ==
  /\ bSources > 0
  /\ bSources' = bSources - 1
  /\ bConnected' = FALSE
  /\ BasicHandleReconnect
  /\ UNCHANGED <<bTransport, bConnects, bIntervals, bRun>>
  /\ UNCHANGED frameBasic

InitBasic ==
  /\ bTransport = "none"
  /\ bConnected = FALSE
  /\ bAttempts = 0
  /\ bConnects = 0
  /\ bTimers = 0
  /\ bIntervals = 0
  /\ bSources = 0
  /\ bRun = 0
  /\ bSched = <<0, 0>>

InitTransport ==
  /\ cTransport = "sse"
  /\ cPollingInterval = 0
  /\ cIntervals = {}
  /\ cNextInterval = 1

\* the GET /sse of the client's EventSource reaches the adapter
ClientStreamStart ==
  /\ cEventSource
  /\ StreamStart(cId)

\* eventSource.onmessage: the next message of the stream is parsed and handled
ClientOnMessage ==
  /\ cEventSource
  /\ cId \in subs
  /\ cCursor < Len(streamed[cId])
  /\ LET st == HandleMessage(ClientState, Parse(streamed[cId][cCursor + 1])) IN
       /\ cProcessed' = st.processed
       /\ cLastTs' = st.lastTs
       /\ cHandled' = st.handled
  /\ cCursor' = cCursor + 1
  /\ UNCHANGED <<cId, cConnected, cEventSource, cReconnectTimer, cAttempts>>
  /\ UNCHANGED <<pubsubVars, obsVars>>
  /\ UNCHANGED frameClient

\* the connection drops: the adapter's stream is aborted and
\* eventSource.onerror closes the EventSource and calls handleReconnect
ClientStreamError ==
  /\ cEventSource
  /\ cEventSource' = FALSE
  /\ subs' = subs \ {cId}
  /\ IF cConnected
       THEN /\ cConnected' = FALSE
            /\ IF cAttempts >= MaxReconnectAttempts
                 THEN UNCHANGED <<cAttempts, cReconnectTimer>>
                 ELSE /\ cAttempts' = cAttempts + 1
                      /\ cReconnectTimer' = TRUE
       ELSE UNCHANGED <<cConnected, cAttempts, cReconnectTimer>>
  /\ UNCHANGED <<cId, cCursor, cLastTs, cProcessed, cHandled>>
  /\ UNCHANGED <<pubCnt, streamed, obsVars>>
  /\ UNCHANGED frameClient

\* a message with a messageId reaches handleMessage: from the stream, from a
\* poll or in missedMessages, for the first time or replayed
ClientReceive(k) ==
  /\ cReceived[k] < MaxReceive
  /\ cReceived' = [cReceived EXCEPT ![k] = @ + 1]
  /\ LET st == HandleMessage(ClientState, Message(k, "s1", TRUE, k)) IN
       /\ cProcessed' = st.processed
       /\ cLastTs' = st.lastTs
       /\ cHandled' = st.handled
  /\ UNCHANGED <<cId, cConnected, cEventSource, cCursor, cReconnectTimer, cAttempts>>
  /\ UNCHANGED frameDedupe

\* arr.slice(-n)
LastOf(arr, n) == IF Len(arr) <= n THEN arr ELSE SubSeq(arr, Len(arr) - n + 1, Len(arr))

\* the dedupe cleanup interval fires: a set above the limit is cut to its
\* latest ids
DedupeCleanup ==
  /\ Len(cProcessed) > DedupeMax
  /\ cProcessed' = LastOf(cProcessed, DedupeKeep)
  /\ UNCHANGED <<cId, cConnected, cEventSource, cCursor, cReconnectTimer, cAttempts,
                 cLastTs, cHandled, cReceived>>
  /\ UNCHANGED frameDedupe

\* ------------------------------------- EnhancedClientSocket.emit with an ack
\* the emits of the application, named by the messageId generateId() gives them
ClientEmits == {"e1", "e2"}

\* ack(...) is called with the given outcome
AckCalled(e, outcome) == [ceCalls EXCEPT ![e] = Append(@, outcome)]

\* emit(event, data, ack): without a connection the callback gets the error at
\* once; otherwise it is registered, the timeout is set and the request sent
ClientEmit(e) ==
  /\ ceFetch[e] = "none"
  /\ IF ~cConnected \/ cId = "none"
       THEN /\ ceCalls' = AckCalled(e, "not_connected")
            /\ ceFetch' = [ceFetch EXCEPT ![e] = "refused"]
            /\ UNCHANGED <<cAckCallbacks, ceTimers>>
       ELSE /\ cAckCallbacks' = cAckCallbacks \cup {e}
            /\ ceTimers' = ceTimers \cup {e}
            /\ ceFetch' = [ceFetch EXCEPT ![e] = "sent"]
            /\ UNCHANGED ceCalls
  /\ UNCHANGED clientVars
  /\ UNCHANGED frameClientAck

\* if (this.ackCallbacks.has(messageId)) in the timeout callback
Has(callbacks, e) == e \in callbacks

\* the 5 s timer of the emit fires
ClientAckTimeout(e) ==
  /\ e \in ceTimers
  /\ ceTimers' = ceTimers \ {e}
  /\ IF Has(cAckCallbacks, e)
       THEN /\ cAckCallbacks' = cAckCallbacks \ {e}
            /\ ceCalls' = AckCalled(e, "timeout")
       ELSE UNCHANGED <<cAckCallbacks, ceCalls>>
  /\ UNCHANGED ceFetch
  /\ UNCHANGED clientVars
  /\ UNCHANGED frameClientAck

\* the request completes with a response
ClientFetchDone(e) ==
  /\ ceFetch[e] = "sent"
  /\ ceFetch' = [ceFetch EXCEPT ![e] = "done"]
  /\ UNCHANGED <<cAckCallbacks, ceTimers, ceCalls>>
  /\ UNCHANGED clientVars
  /\ UNCHANGED frameClientAck

\* the request fails: the catch deletes the callback and calls it with the error
ClientFetchFails(e) ==
  /\ ceFetch[e] = "sent"
  /\ ceFetch' = [ceFetch EXCEPT ![e] = "failed"]
  /\ cAckCallbacks' = cAckCallbacks \ {e}
  /\ ceCalls' = AckCalled(e, "failed")
  /\ UNCHANGED ceTimers
  /\ UNCHANGED clientVars
  /\ UNCHANGED frameClientAck

\* a message with event "__ack" and the emit's messageId reaches handleMessage:
\* after the dedupe check the registered callback is called with its data and
\* deleted
ClientAckMessage(e) ==
  /\ ceFetch[e] \in {"sent", "done", "failed"}
  /\ ~Seen(cProcessed, e)
  /\ cProcessed' = SetAdd(cProcessed, e)
  /\ IF e \in cAckCallbacks
       THEN /\ ceCalls' = AckCalled(e, "data")
            /\ cAckCallbacks' = cAckCallbacks \ {e}
       ELSE UNCHANGED <<cAckCallbacks, ceCalls>>
  /\ UNCHANGED <<ceTimers, ceFetch>>
  /\ UNCHANGED <<cId, cConnected, cEventSource, cCursor, cReconnectTimer, cAttempts,
                 cLastTs, cHandled>>
  /\ UNCHANGED frameClientAck

InitClientAck ==
  /\ cAckCallbacks = {}
  /\ ceTimers = {}
  /\ ceFetch = [e \in ClientEmits |-> "none"]
  /\ ceCalls = [e \in ClientEmits |-> <<>>]

InitClient ==
  /\ cReceived = [k \in MsgNums |-> 0]
  /\ hcPc = "idle"
  /\ hcSid = "s1"
  /\ hcTs = 0
  /\ hcMissed = <<>>
  /\ cId = "none"
  /\ cConnected = FALSE
  /\ cEventSource = FALSE
  /\ cCursor = 0
  /\ cReconnectTimer = FALSE
  /\ cAttempts = 0
  /\ cLastTs = 0
  /\ cProcessed = <<>>
  /\ cHandled = [k \in MsgNums |-> 0]
  /\ emTarget = [k \in MsgNums |-> "none"]
  /\ emOffline = [k \in MsgNums |-> FALSE]
  /\ reconnected = [k \in MsgNums |-> FALSE]
  /\ missedCnt = [k \in MsgNums |-> 0]
  /\ cSentTs = 0
  /\ hcBefore = {}
  /\ hcRejected = {}
  /\ hcTimers = {}
  /\ onConnectRan = {}

\* ------------------------------------------- the state manager: sessions
\* if (!current) return
ReadsAsPresent(current) == FALSE
IsAbsent(current) == current = "null"

\* updateSession, first await: getSession (GET). No record: the call returns.
UpdateSessionGet(c, sid) ==
  /\ updPc[c] = "idle"
  /\ updPc' = [updPc EXCEPT ![c] = IF IsAbsent(Get(sid)) THEN "idle" ELSE "setex"]
  /\ updSawAbsent' = [updSawAbsent EXCEPT ![c] = (Get(sid) = "null")]
  /\ updSid' = [updSid EXCEPT ![c] = sid]
  /\ updWrote' = [updWrote EXCEPT ![c] = FALSE]
  /\ UNCHANGED <<live, recVars, sinceMsg>>
  /\ UNCHANGED frameSession

\* updateSession, second await: SETEX ss:<sid>:state ttl
UpdateSessionSetex(c) ==
  /\ updPc[c] = "setex"
  /\ live' = live \cup {updSid[c]}
  /\ sessTtl' = [sessTtl EXCEPT ![updSid[c]] = SetEx(@)]
  /\ sinceWrite' = [sinceWrite EXCEPT ![updSid[c]] = 0]
  /\ updPc' = [updPc EXCEPT ![c] = "idle"]
  /\ updWrote' = [updWrote EXCEPT ![c] = TRUE]
  /\ UNCHANGED <<created, deleted, age, updSid, updSawAbsent, sinceMsg>>
  /\ UNCHANGED frameSession

\* ------------------------------ socket.set and its background updateSession
Keys == {"k1", "k2"}
Handlers == {"h1", "h2"}

\* { ...current, ...updates }: the properties of updates replace those of current
Spread(current, updates) ==
  [f \in DOMAIN current \cup DOMAIN updates |->
     IF f \in DOMAIN updates THEN updates[f] ELSE current[f]]

\* handleMessage: const state = await getSession(sessionId); the handler of the
\* event is called with a socket around this state object
SetHandlerGet(h, sid) ==
  /\ shPc[h] = "idle"
  /\ Get(sid) # "null"
  /\ shPc' = [shPc EXCEPT ![h] = "handler"]
  /\ shSid' = [shSid EXCEPT ![h] = sid]
  /\ shState' = [shState EXCEPT ![h] = sData[sid]]
  /\ UNCHANGED <<sData, shCur, shKey>>
  /\ UNCHANGED <<live, recVars, updVars, sinceMsg>>
  /\ UNCHANGED frameSet

\* socket.set(key, value): this.state.data[key] = value, and updateSession is
\* started without being awaited
SocketSet(h, key) ==
  /\ shPc[h] = "handler"
  /\ shState' = [shState EXCEPT ![h] = @ \cup {key}]
  /\ shKey' = [shKey EXCEPT ![h] = key]
  /\ shPc' = [shPc EXCEPT ![h] = "upd_get"]
  /\ UNCHANGED <<sData, shSid, shCur>>
  /\ UNCHANGED <<live, recVars, updVars, sinceMsg>>
  /\ UNCHANGED frameSet

\* the background updateSession, first await: getSession
SetUpdateGet(h) ==
  /\ shPc[h] = "upd_get"
  /\ shPc' = [shPc EXCEPT ![h] = IF IsAbsent(Get(shSid[h])) THEN "done" ELSE "upd_setex"]
  /\ shCur' = [shCur EXCEPT ![h] = sData[shSid[h]]]
  /\ UNCHANGED <<sData, shSid, shState, shKey>>
  /\ UNCHANGED <<live, recVars, updVars, sinceMsg>>
  /\ UNCHANGED frameSet

\* the background updateSession, second await: SETEX of
\* { ...current, ...updates, lastActivity }
SetUpdateSetex(h) ==
  /\ shPc[h] = "upd_setex"
  /\ sData' = [sData EXCEPT ![shSid[h]] =
       Spread([data |-> shCur[h]], [data |-> shState[h]]).data]
  /\ live' = live \cup {shSid[h]}
  /\ sessTtl' = [sessTtl EXCEPT ![shSid[h]] = SetEx(@)]
  /\ sinceWrite' = [sinceWrite EXCEPT ![shSid[h]] = 0]
  /\ shPc' = [shPc EXCEPT ![h] = "done"]
  /\ UNCHANGED <<shSid, shState, shCur, shKey>>
  /\ UNCHANGED <<created, deleted, age, updVars, sinceMsg>>
  /\ UNCHANGED frameSet

InitSet ==
  /\ sData = [s \in Sessions |-> {}]
  /\ shPc = [h \in Handlers |-> "idle"]
  /\ shSid = [h \in Handlers |-> "s1"]
  /\ shState = [h \in Handlers |-> {}]
  /\ shCur = [h \in Handlers |-> {}]
  /\ shKey = [h \in Handlers |-> "k1"]

\* one second passes at the store: the records whose time is up are gone
Tick ==
  /\ sessTtl' = [s \in Sessions |-> IF sessTtl[s] > 0 THEN sessTtl[s] - 1 ELSE 0]
  /\ live' = {s \in live : sessTtl[s] > 1}
  /\ sinceWrite' = [s \in Sessions |->
       IF s \in created /\ sinceWrite[s] < Ttl THEN sinceWrite[s] + 1 ELSE sinceWrite[s]]
  /\ age' = [s \in Sessions |->
       IF s \in created /\ age[s] <= Ttl THEN age[s] + 1 ELSE age[s]]
  /\ sinceMsg' = [s \in Sessions |-> IF sinceMsg[s] < Ttl THEN sinceMsg[s] + 1 ELSE sinceMsg[s]]
  /\ UNCHANGED <<created, deleted, updVars>>
  /\ UNCHANGED frameSession

\* --------------------------------------------- the servers: handleDisconnect
\* SocketServer and the edge server ("basic") and EnhancedSocketServer
\* ("enhanced", always on RedisStateManager) differ in the cleanup step only.
\* const state = await getSession(sessionId); if (!state) return;
HandleDisconnectGet(c, sid, kind, throws) ==
  /\ hdPc[c] = "idle"
  /\ kind = "enhanced" => backend = "redis"
  /\ hdPc' = [hdPc EXCEPT ![c] =
       IF Get(sid) = "null" THEN "idle"
       ELSE IF kind = "enhanced" THEN "cleanup" ELSE "handler"]
  /\ hdSid' = [hdSid EXCEPT ![c] = sid]
  /\ hdKind' = [hdKind EXCEPT ![c] = kind]
  /\ hdThrows' = [hdThrows EXCEPT ![c] = throws]
  /\ UNCHANGED <<hdToLeave, hdLeaving, hdResult>>
  /\ UNCHANGED <<queue, qExp, live, roomMembers, sessionRooms, rmClean, recVars>>
  /\ UNCHANGED frameDisconnect

\* socket.cleanup() -> leaveAll(): const rooms = await this.getRooms()
HandleDisconnectLeaveAll(c) ==
  /\ hdPc[c] = "cleanup"
  /\ hdToLeave' = [hdToLeave EXCEPT ![c] = GetSessionRooms(hdSid[c])]
  /\ hdPc' = [hdPc EXCEPT ![c] =
       IF GetSessionRooms(hdSid[c]) = {} THEN "handler" ELSE "leaving"]
  /\ UNCHANGED <<hdSid, hdKind, hdThrows, hdLeaving, hdResult>>
  /\ UNCHANGED <<queue, qExp, live, roomMembers, sessionRooms, rmClean, recVars>>
  /\ UNCHANGED frameDisconnect

\* Promise.all(rooms.map(room => this.leave(room))): leaveRoom, first await
HandleDisconnectLeaveRoom(c, room) ==
  /\ hdPc[c] = "leaving"
  /\ room \in hdToLeave[c]
  /\ roomMembers' = [roomMembers EXCEPT ![room] = SRem(@, hdSid[c])]
  /\ rmClean' = [d \in Callers |->
       IF rmSid[d] = hdSid[c] /\ rmRoom[d] = room THEN FALSE ELSE rmClean[d]]
  /\ hdToLeave' = [hdToLeave EXCEPT ![c] = @ \ {room}]
  /\ hdLeaving' = [hdLeaving EXCEPT ![c] = @ \cup {room}]
  /\ UNCHANGED <<hdPc, hdSid, hdKind, hdThrows, hdResult>>
  /\ UNCHANGED <<queue, qExp, live, sessionRooms, recVars>>
  /\ UNCHANGED frameDisconnect

\* leaveRoom, second await; the last one ends cleanup()
HandleDisconnectLeaveSession(c, room) ==
  /\ hdPc[c] = "leaving"
  /\ room \in hdLeaving[c]
  /\ sessionRooms' = [sessionRooms EXCEPT ![hdSid[c]] = SRem(@, room)]
  /\ rmClean' = [d \in Callers |->
       IF rmSid[d] = hdSid[c] /\ rmRoom[d] = room THEN FALSE ELSE rmClean[d]]
  /\ hdLeaving' = [hdLeaving EXCEPT ![c] = @ \ {room}]
  /\ hdPc' = [hdPc EXCEPT ![c] =
       IF hdToLeave[c] = {} /\ hdLeaving[c] = {room} THEN "handler" ELSE "leaving"]
  /\ UNCHANGED <<hdSid, hdKind, hdThrows, hdToLeave, hdResult>>
  /\ UNCHANGED <<queue, qExp, live, roomMembers, recVars>>
  /\ UNCHANGED frameDisconnect

\* await this.handlers.onDisconnect(socket): not in a try block, so a handler
\* that throws ends handleDisconnect there
HandleDisconnectHandlerOp(c) ==
  /\ hdPc[c] = "handler"
  /\ hdPc' = [hdPc EXCEPT ![c] = IF hdThrows[c] THEN "idle" ELSE "delete"]
  /\ hdResult' = [hdResult EXCEPT ![hdSid[c]] = IF hdThrows[c] THEN "threw" ELSE @]
  /\ UNCHANGED <<hdSid, hdKind, hdThrows, hdToLeave, hdLeaving>>
  /\ UNCHANGED <<queue, qExp, live, roomMembers, sessionRooms, rmClean, recVars>>

HandleDisconnectHandler(c) ==
  /\ HandleDisconnectHandlerOp(c)
  /\ UNCHANGED frameDisconnect

\* EnhancedSocketServer.handleDisconnect(sessionId, namespace) with
\* namespace || "/" = ns: ns.handleDisconnection(socket) deletes the id from
\* that namespace's map, then the disconnect handlers run
EnhancedDisconnectHandlers(c, ns) ==
  /\ hdKind[c] = "enhanced"
  /\ HandleDisconnectHandlerOp(c)
  /\ nsSockets' = [nsSockets EXCEPT ![ns] = @ \ {hdSid[c]}]
  /\ UNCHANGED frameDisconnectNs

\* await this.stateManager.deleteSession(sessionId)
HandleDisconnectDelete(c) ==
  /\ hdPc[c] = "delete"
  /\ IF backend = "redis"
       THEN DeleteSessionOp(hdSid[c]) /\ UNCHANGED <<queue, qExp, sessionRooms, rmClean>>
       ELSE UpstashDeleteSessionOp(hdSid[c])
  /\ hdPc' = [hdPc EXCEPT ![c] = "idle"]
  /\ hdResult' = [hdResult EXCEPT ![hdSid[c]] = "returned"]
  /\ UNCHANGED <<hdSid, hdKind, hdThrows, hdToLeave, hdLeaving>>
  /\ UNCHANGED roomMembers
  /\ UNCHANGED frameDisconnect

\* ------------------------------------------------ the servers: handleMessage
\* the event names requests carry; the application registered a handler for
\* "chat" only, "__pong" is one of EnhancedSocketServer's internal events
Events == {"chat", "typing", "__pong"}
RegisteredEvents == {"chat"}

\* if (!state) throw new Error("Session not found")
NoSessionNever(state) == FALSE
NoSession(state) == state = "null"

\* this.handlers.messages.get(event) (and, in EnhancedSocketServer, the
\* namespace's handler map before it); internal events return before the lookup
HandlerForAny(kind, event) == "chat"
HandlerFor(kind, event) ==
  IF kind = "enhanced" /\ event = "__pong" THEN "none"
  ELSE IF event \in RegisteredEvents THEN event ELSE "none"

\* const state = await this.stateManager.getSession(sessionId)
HandleMessageGet(c, sid, event, kind) ==
  /\ hmPc[c] = "idle"
  /\ kind = "enhanced" => backend = "redis"
  /\ hmPc' = [hmPc EXCEPT ![c] = "got"]
  /\ hmSid' = [hmSid EXCEPT ![c] = sid]
  /\ hmEvent' = [hmEvent EXCEPT ![c] = event]
  /\ hmKind' = [hmKind EXCEPT ![c] = kind]
  /\ hmState' = [hmState EXCEPT ![c] = Get(sid)]
  /\ hmOutcome' = [hmOutcome EXCEPT ![c] = "none"]
  /\ hmRanMiddleware' = [hmRanMiddleware EXCEPT ![c] = FALSE]
  /\ hmRanHandler' = [hmRanHandler EXCEPT ![c] = FALSE]
  /\ sinceMsg' = [sinceMsg EXCEPT ![sid] = IF Get(sid) = "null" THEN @ ELSE 0]
  /\ UNCHANGED frameMessage

\* if (!state) throw; otherwise on to the middleware chain (EnhancedSocketServer)
\* or straight to the handler lookup (SocketServer, edge server)
HandleMessageCheck(c) ==
  /\ hmPc[c] = "got"
  /\ hmPc' = [hmPc EXCEPT ![c] =
       IF NoSession(hmState[c]) THEN "idle"
       ELSE IF hmKind[c] = "enhanced" THEN "middleware" ELSE "dispatch"]
  /\ hmOutcome' = [hmOutcome EXCEPT ![c] = IF NoSession(hmState[c]) THEN "notfound" ELSE @]
  /\ UNCHANGED <<hmSid, hmEvent, hmKind, hmState, hmRanMiddleware, hmRanHandler, sinceMsg>>
  /\ UNCHANGED frameMessage

\* await this.middleware.execute(ctx): the chain passes or one of its
\* functions throws, and the error is rethrown to the caller
HandleMessageMiddleware(c, rejects) ==
  /\ hmPc[c] = "middleware"
  /\ hmRanMiddleware' = [hmRanMiddleware EXCEPT ![c] = TRUE]
  /\ hmPc' = [hmPc EXCEPT ![c] = IF rejects THEN "idle" ELSE "dispatch"]
  /\ hmOutcome' = [hmOutcome EXCEPT ![c] = IF rejects THEN "rejected" ELSE @]
  /\ UNCHANGED <<hmSid, hmEvent, hmKind, hmState, hmRanHandler, sinceMsg>>
  /\ UNCHANGED frameMessage

\* the handler lookup: no handler, console.warn and return; otherwise the
\* handler is called
HandleMessageDispatch(c) ==
  /\ hmPc[c] = "dispatch"
  /\ hmPc' = [hmPc EXCEPT ![c] =
       IF HandlerFor(hmKind[c], hmEvent[c]) = "none" THEN "idle" ELSE "handler"]
  /\ hmOutcome' = [hmOutcome EXCEPT ![c] =
       IF HandlerFor(hmKind[c], hmEvent[c]) = "none" THEN "returned" ELSE @]
  /\ hmRanHandler' = [hmRanHandler EXCEPT ![c] = HandlerFor(hmKind[c], hmEvent[c]) # "none"]
  /\ UNCHANGED <<hmSid, hmEvent, hmKind, hmState, hmRanMiddleware, sinceMsg>>
  /\ UNCHANGED frameMessage

\* await handler(socket, data) resolves; the emits the handler awaited are over
HandleMessageReturn(c) ==
  /\ hmPc[c] = "handler"
  /\ emPc[c] = "idle"
  /\ hmPc' = [hmPc EXCEPT ![c] = "idle"]
  /\ hmOutcome' = [hmOutcome EXCEPT ![c] = "returned"]
  /\ UNCHANGED <<hmSid, hmEvent, hmKind, hmState, hmRanMiddleware, hmRanHandler, sinceMsg>>
  /\ UNCHANGED frameMessage

\* ---------------------------------------- namespaces: the message handlers
Namespaces == {"/", "/chat"}
InternalEvents == {"__pong", "__presence", "__presence_subscribe"}

\* server.of(name).on(event, handler): Namespace.on stores a message handler
NamespaceOn(ns, event) ==
  /\ event \notin InternalEvents
  /\ event \notin nsMessages[ns]
  /\ nsMessages' = [nsMessages EXCEPT ![ns] = @ \cup {event}]
  /\ UNCHANGED <<glMessages, hmNs, hmInvoked, hmVars, sinceMsg>>
  /\ UNCHANGED frameDispatch

\* server.onMessage(event, handler): the global handler map
OnMessage(event) ==
  /\ event \notin InternalEvents
  /\ event \notin glMessages
  /\ glMessages' = glMessages \cup {event}
  /\ UNCHANGED <<nsMessages, hmNs, hmInvoked, hmVars, sinceMsg>>
  /\ UNCHANGED frameDispatch

\* Namespace.handleMessage: false when the namespace has no handler for the
\* event, otherwise the handler is awaited and the result is true
HandledNever(ns, event) == FALSE
Handled(ns, event) == event \in nsMessages[ns]

\* the handlers EnhancedSocketServer.handleMessage invokes after the
\* middleware chain: none for an internal event, the namespace's handler, and
\* the global one only if (!handled)
Invoked(ns, event) ==
  IF event \in InternalEvents THEN <<>>
  ELSE (IF event \in nsMessages[ns] THEN <<ns>> ELSE <<>>)
       \o (IF ~Handled(ns, event) /\ event \in glMessages THEN <<"global">> ELSE <<>>)

\* the dispatch of EnhancedSocketServer.handleMessage for a message sent with
\* options.namespace = ns
HandleMessageDispatchNs(c, ns) ==
  /\ hmPc[c] = "dispatch"
  /\ hmKind[c] = "enhanced"
  /\ hmNs' = [hmNs EXCEPT ![c] = ns]
  /\ hmInvoked' = [hmInvoked EXCEPT ![c] = Invoked(ns, hmEvent[c])]
  /\ hmPc' = [hmPc EXCEPT ![c] = IF Invoked(ns, hmEvent[c]) = <<>> THEN "idle" ELSE "handler"]
  /\ hmOutcome' = [hmOutcome EXCEPT ![c] = IF Invoked(ns, hmEvent[c]) = <<>> THEN "returned" ELSE @]
  /\ hmRanHandler' = [hmRanHandler EXCEPT ![c] = Invoked(ns, hmEvent[c]) # <<>>]
  /\ UNCHANGED <<hmSid, hmEvent, hmKind, hmState, hmRanMiddleware, sinceMsg>>
  /\ UNCHANGED <<nsMessages, glMessages>>
  /\ UNCHANGED frameDispatch

InitNamespace ==
  /\ nsSockets = [ns \in Namespaces |-> {}]
  /\ nsMessages = [ns \in Namespaces |-> {}]
  /\ glMessages = {}
  /\ hmNs = [c \in Callers |-> "/"]
  /\ hmInvoked = [c \in Callers |-> <<>>]

InitMessage ==
  /\ hmPc = [c \in Callers |-> "idle"]
  /\ hmSid = [c \in Callers |-> "s1"]
  /\ hmEvent = [c \in Callers |-> "chat"]
  /\ hmKind = [c \in Callers |-> "basic"]
  /\ hmState = [c \in Callers |-> "state"]
  /\ hmOutcome = [c \in Callers |-> "none"]
  /\ hmRanMiddleware = [c \in Callers |-> FALSE]
  /\ hmRanHandler = [c \in Callers |-> FALSE]
  /\ sinceMsg = [s \in Sessions |-> Ttl]

\* --------------------------------------------------------- PresenceManager
Users == {"u1", "u2"}
Statuses == {"online", "away", "offline", "busy"}

\* the PresenceUpdate handed to every handler
Update(u, s, status) == [userId |-> u, socketId |-> s, status |-> status]

\* updatePresence(userId, socketId, status): the entry is replaced, lastSeen
\* is now, the handlers are notified
UpdatePresence(u, s, status) ==
  /\ presStatus' = [presStatus EXCEPT ![u] = status]
  /\ presElapsed' = [presElapsed EXCEPT ![u] = 0]
  /\ notes' = {Update(u, s, status)}

\* track(socketId, userId, initialStatus)
Track(s, u, status) ==
  /\ socketToUser' = [socketToUser EXCEPT ![s] = u]
  /\ userToSockets' = [userToSockets EXCEPT ![u] = SetAdd(@, s)]
  /\ UpdatePresence(u, s, status)
  /\ sockStatus' = [sockStatus EXCEPT ![s] = status]
  /\ sinceBeat' = [sinceBeat EXCEPT ![u] = 0]
  /\ presOp' = <<"track", "">>
  /\ UNCHANGED framePresence

\* if (sockets.size === 0)
NeverLast(sockets) == FALSE
NoneLeft(sockets) == Len(sockets) = 0

\* untrack(socketId)
Untrack(s) ==
  /\ presOp' = <<"untrack", s>>
  /\ LET u == socketToUser[s] IN
       IF u = "none"
         THEN /\ notes' = {}
              /\ UNCHANGED <<presStatus, presElapsed, socketToUser, userToSockets,
                             sockStatus, sinceBeat>>
         ELSE /\ socketToUser' = [socketToUser EXCEPT ![s] = "none"]
              /\ sockStatus' = [sockStatus EXCEPT ![s] = "none"]
              /\ userToSockets' = [userToSockets EXCEPT ![u] = SetDelete(@, s)]
              /\ IF userToSockets[u] # <<>> /\ NoneLeft(SetDelete(userToSockets[u], s))
                   THEN UpdatePresence(u, s, "offline")
                   ELSE notes' = {} /\ UNCHANGED <<presStatus, presElapsed>>
              /\ UNCHANGED sinceBeat
  /\ UNCHANGED framePresence

\* PresenceSocketExtension.setStatus(status), for the user the socket is tracked for
SetStatus(s, status) ==
  /\ socketToUser[s] # "none"
  /\ UpdatePresence(socketToUser[s], s, status)
  /\ sockStatus' = [sockStatus EXCEPT ![s] = status]
  /\ sinceBeat' = [sinceBeat EXCEPT ![socketToUser[s]] = 0]
  /\ presOp' = <<"setStatus", "">>
  /\ UNCHANGED <<socketToUser, userToSockets>>
  /\ UNCHANGED framePresence

\* heartbeat(socketId): an away user is set back to online, otherwise only
\* lastSeen is renewed
Heartbeat(s) ==
  /\ presOp' = <<"heartbeat", "">>
  /\ LET u == socketToUser[s] IN
       IF u = "none"
         THEN notes' = {} /\ UNCHANGED <<presStatus, presElapsed, sinceBeat>>
         ELSE /\ sinceBeat' = [sinceBeat EXCEPT ![u] = 0]
              /\ IF presStatus[u] = "away"
                   THEN UpdatePresence(u, s, "online")
                   ELSE /\ notes' = {}
                        /\ presElapsed' = [presElapsed EXCEPT ![u] =
                             IF presStatus[u] = "none" THEN @ ELSE 0]
                        /\ UNCHANGED presStatus
  /\ UNCHANGED <<socketToUser, userToSockets, sockStatus>>
  /\ UNCHANGED framePresence

\* what checkStalePresences does to one entry of presenceMap
Stale(u) ==
  IF presStatus[u] = "online" /\ presElapsed[u] > AwayTimeout THEN "away"
  ELSE IF presStatus[u] = "away" /\ presElapsed[u] > OfflineTimeout THEN "offline"
  ELSE "keep"

\* checkStalePresences(): every entry is demoted by the time since its lastSeen
CheckStalePresences ==
  /\ presStatus' = [u \in Users |-> IF Stale(u) = "keep" THEN presStatus[u] ELSE Stale(u)]
  /\ presElapsed' = [u \in Users |-> IF Stale(u) = "keep" THEN presElapsed[u] ELSE 0]
  /\ socketToUser' = [s \in Sessions |->
       IF \E u \in Users : Stale(u) = "offline" /\ SetHas(userToSockets[u], s)
         THEN "none" ELSE socketToUser[s]]
  /\ userToSockets' = [u \in Users |->
       IF Stale(u) = "offline" THEN <<>> ELSE userToSockets[u]]
  /\ notes' = {Update(u, FirstValue(userToSockets[u]), "away") : u \in {v \in Users : Stale(v) = "away"}}
             \cup {Update(u, "", "offline") : u \in {v \in Users : Stale(v) = "offline"}}
  /\ sockStatus' = [s \in Sessions |-> IF socketToUser'[s] = "none" THEN "none" ELSE sockStatus[s]]
  /\ presOp' = <<"sweep", "">>
  /\ UNCHANGED sinceBeat
  /\ UNCHANGED framePresence

\* the clock advances by one tick
PresenceTick ==
  /\ presElapsed' = [u \in Users |->
       IF presStatus[u] # "none" /\ presElapsed[u] <= OfflineTimeout
         THEN presElapsed[u] + 1 ELSE presElapsed[u]]
  /\ sinceBeat' = [u \in Users |->
       IF presStatus[u] # "none" /\ sinceBeat[u] <= OfflineTimeout
         THEN sinceBeat[u] + 1 ELSE sinceBeat[u]]
  /\ presOp' = <<"tick", "">>
  /\ notes' = {}
  /\ UNCHANGED <<presStatus, socketToUser, userToSockets, sockStatus>>
  /\ UNCHANGED framePresence

InitPresence ==
  /\ presStatus = [u \in Users |-> "none"]
  /\ presElapsed = [u \in Users |-> 0]
  /\ socketToUser = [s \in Sessions |-> "none"]
  /\ userToSockets = [u \in Users |-> <<>>]
  /\ sockStatus = [s \in Sessions |-> "none"]
  /\ sinceBeat = [u \in Users |-> 0]
  /\ presOp = <<"none", "">>
  /\ notes = {}

InitSession ==
  /\ sessTtl = [s \in Sessions |-> 0]
  /\ created = {}
  /\ deleted = {}
  /\ sinceWrite = [s \in Sessions |-> 0]
  /\ age = [s \in Sessions |-> 0]
  /\ updPc = [c \in Callers |-> "idle"]
  /\ updSid = [c \in Callers |-> "s1"]
  /\ updSawAbsent = [c \in Callers |-> FALSE]
  /\ updWrote = [c \in Callers |-> FALSE]
  /\ rmExp = [r \in Rooms |-> FALSE]
  /\ srExp = [s \in Sessions |-> FALSE]

InitDisconnect ==
  /\ hdPc = [c \in Callers |-> "idle"]
  /\ hdSid = [c \in Callers |-> "s1"]
  /\ hdKind = [c \in Callers |-> "basic"]
  /\ hdThrows = [c \in Callers |-> FALSE]
  /\ hdToLeave = [c \in Callers |-> {}]
  /\ hdLeaving = [c \in Callers |-> {}]
  /\ hdResult = [s \in Sessions |-> "none"]

InitPubSub ==
  /\ subs = {}
  /\ pubCnt = [ch \in Channels |-> [k \in MsgNums |-> 0]]
  /\ streamed = [s \in Sessions |-> <<>>]

InitEmit ==
  /\ emPc = [c \in Callers |-> "idle"]
  /\ emMsg = [c \in Callers |-> NoMessage]
  /\ ackCallbacks = {}
  /\ ackTimers = {}
  /\ cbThrows = {}
  /\ cbResp = [id \in AckIds |-> 0]
  /\ cbTimeout = [id \in AckIds |-> 0]

Init ==
  /\ backend \in {"redis", "upstash"}
  /\ InitQueue
  /\ InitRoom
  /\ InitPubSub
  /\ InitEmit
  /\ InitBroadcast
  /\ InitClient
  /\ InitSession
  /\ InitDisconnect
  /\ InitMessage
  /\ InitPresence
  /\ InitClientAck
  /\ InitTransport
  /\ InitBasic
  /\ InitSet
  /\ InitChain
  /\ InitNamespace
  /\ InitTimers

NextQueue ==
  \/ \E c \in Callers, sid \in StoreSessions, withAck \in BOOLEAN :
       nextMsg <= MaxQueueMsgs /\ EnqueueRPush(c, sid, withAck)
  \/ \E c \in Callers : EnqueueExpire(c)
  \/ \E sid \in StoreSessions : DequeueLRange(sid)
  \/ \E sid \in StoreSessions : DequeueDel(sid)
  \/ \E sid \in StoreSessions, withAck \in BOOLEAN :
       nextMsg <= MaxQueueMsgs /\ UpstashEnqueueMessage(sid, withAck)
  \/ \E sid \in StoreSessions : UpstashDequeueMessages(sid)

SpecQueue == Init /\ [][NextQueue]_vars

NextRoom ==
  \/ \E c \in Callers, sid \in StoreSessions, room \in Rooms : JoinSAddRoom(c, sid, room)
  \/ \E c \in Callers : JoinSAddSession(c)
  \/ \E c \in Callers, sid \in StoreSessions, room \in Rooms : LeaveSRemRoom(c, sid, room)
  \/ \E c \in Callers : LeaveSRemSession(c)
  \/ \E c \in Callers, sid \in StoreSessions, room \in Rooms : UpstashJoinRoom(c, sid, room)
  \/ \E c \in Callers, sid \in StoreSessions, room \in Rooms : UpstashLeaveRoom(c, sid, room)
  \/ \E sid \in StoreSessions : sid \notin created /\ CreateSession(sid)
  \/ \E sid \in StoreSessions : DeleteSession(sid)
  \/ \E sid \in StoreSessions : UpstashDeleteSession(sid)

SpecRoom == Init /\ [][NextRoom]_vars

\* one socket: emits with and without an ack callback, acks and timeouts
NextAck ==
  \/ \E c \in Callers, withAck \in BOOLEAN :
       \E throws \in (IF withAck THEN BOOLEAN ELSE {FALSE}) :
         nextMsg <= MaxQueueMsgs /\ EmitBegin(c, "s1", withAck, throws)
  \/ \E c \in Callers : EmitEnqueueRPush(c)
  \/ \E c \in Callers : EmitEnqueueExpire(c)
  \/ \E c \in Callers : EmitUpstashEnqueue(c)
  \/ \E c \in Callers : EmitPublish(c)
  \/ \E id \in AckIds : HandleAck(id)
  \/ \E id \in AckIds : AckTimeout(id)

SpecAck == Init /\ [][NextAck]_vars

\* sessions join the room "r1" and s3 leaves it again, while s2 is emitted to
\* and the sockets of s1 and s2 broadcast to the room
NextBroadcast ==
  \/ \E sid \in Sessions : JoinSAddRoom("c1", sid, "r1")
  \/ JoinSAddSession("c1")
  \/ LeaveSRemRoom("c1", "s3", "r1")
  \/ LeaveSRemSession("c1")
  \/ \E sid \in Sessions : UpstashJoinRoom("c1", sid, "r1")
  \/ UpstashLeaveRoom("c1", "s3", "r1")
  \/ nextMsg <= MaxRoomMsgs /\ EmitBegin("c1", "s2", FALSE, FALSE)
  \/ EmitEnqueueRPush("c1")
  \/ EmitEnqueueExpire("c1")
  \/ EmitUpstashEnqueue("c1")
  \/ EmitPublish("c1")
  \/ \E sender \in StoreSessions : nextMsg <= MaxRoomMsgs /\ BroadcastToRoomMembers("c2", sender, "r1")
  \/ \E memberId \in Sessions : BroadcastToRoomPublish("c2", memberId)

SpecBroadcast == Init /\ [][NextBroadcast]_vars

\* sessions open and close streams while sockets emit and broadcast
NextStream ==
  \/ \E sid \in Sessions : StreamStart(sid)
  \/ \E sid \in Sessions : StreamAbort(sid)
  \/ \E sid \in Sessions : nextMsg <= MaxQueueMsgs /\ EmitBegin("c1", sid, FALSE, FALSE)
  \/ EmitEnqueueRPush("c1")
  \/ EmitEnqueueExpire("c1")
  \/ EmitUpstashEnqueue("c1")
  \/ EmitPublish("c1")
  \/ \E sender \in Sessions : nextMsg <= MaxQueueMsgs /\ Broadcast(sender)

SpecStream == Init /\ [][NextStream]_vars

\* one client connects, receives over its stream, loses the connection and
\* reconnects, while the server emits to the sessions that exist
NextDelivery ==
  \/ \E sid \in StoreSessions : HandleConnectCreate(sid)
  \/ HandleConnectMiddleware(FALSE)
  \/ HandleConnectLRange
  \/ HandleConnectDel
  \/ HandleConnectUpstashDequeue
  \/ ClientConnected
  \/ ClientStreamStart
  \/ ClientOnMessage
  \/ ClientStreamError
  \/ \E sid \in Sessions, withAck \in BOOLEAN : sid \in live /\ EmitBegin("c1", sid, withAck, FALSE)
  \/ EmitEnqueueRPush("c1")
  \/ EmitEnqueueExpire("c1")
  \/ EmitUpstashEnqueue("c1")
  \/ EmitPublish("c1")

SpecDelivery == Init /\ [][NextDelivery]_vars

\* session records are created, updated and deleted by concurrent requests
\* while time passes
NextSession ==
  \/ \E sid \in StoreSessions : sid \notin created /\ CreateSession(sid)
  \/ \E c \in Callers, sid \in StoreSessions : UpdateSessionGet(c, sid)
  \/ \E c \in Callers : UpdateSessionSetex(c)
  \/ \E sid \in StoreSessions : DeleteSession(sid)
  \/ \E sid \in StoreSessions : UpstashDeleteSession(sid)
  \/ Tick

SpecSession == Init /\ [][NextSession]_vars

\* sessions are created and join rooms, and disconnect requests for them are
\* handled by either server class, with a disconnect handler that may throw
NextDisconnect ==
  \/ \E sid \in StoreSessions : sid \notin created /\ CreateSession(sid)
  \/ \E sid \in StoreSessions, room \in Rooms : JoinSAddRoom("c1", sid, room)
  \/ JoinSAddSession("c1")
  \/ \E sid \in StoreSessions, room \in Rooms : UpstashJoinRoom("c1", sid, room)
  \/ \E sid \in StoreSessions, kind \in {"basic", "enhanced"},
        throws \in BOOLEAN : HandleDisconnectGet("c2", sid, kind, throws)
  \/ HandleDisconnectLeaveAll("c2")
  \/ \E room \in Rooms : HandleDisconnectLeaveRoom("c2", room)
  \/ \E room \in Rooms : HandleDisconnectLeaveSession("c2", room)
  \/ HandleDisconnectHandler("c2")
  \/ HandleDisconnectDelete("c2")

SpecDisconnect == Init /\ [][NextDisconnect]_vars

\* message requests for sessions that exist, have expired or were deleted; the
\* "chat" handler answers with socket.emit; time passes at the store
NextMessage ==
  \/ \E sid \in StoreSessions : sid \notin created /\ CreateSession(sid)
  \/ \E sid \in StoreSessions : DeleteSession(sid)
  \/ \E sid \in StoreSessions : UpstashDeleteSession(sid)
  \/ Tick
  \/ \E sid \in StoreSessions, event \in Events, kind \in {"basic", "enhanced"} :
        HandleMessageGet("c1", sid, event, kind)
  \/ HandleMessageCheck("c1")
  \/ \E rejects \in BOOLEAN : HandleMessageMiddleware("c1", rejects)
  \/ HandleMessageDispatch("c1")
  \/ hmPc["c1"] = "handler" /\ nextMsg <= MaxRoomMsgs /\ EmitBegin("c1", hmSid["c1"], FALSE, FALSE)
  \/ EmitEnqueueRPush("c1")
  \/ EmitEnqueueExpire("c1")
  \/ EmitUpstashEnqueue("c1")
  \/ EmitPublish("c1")
  \/ HandleMessageReturn("c1")

SpecMessage == Init /\ [][NextMessage]_vars

\* handlers are registered on the namespaces and globally, and messages for
\* either namespace go through EnhancedSocketServer.handleMessage
NextNamespace ==
  \/ \E sid \in StoreSessions : sid \notin created /\ CreateSession(sid)
  \/ \E ns \in Namespaces, event \in Events : NamespaceOn(ns, event)
  \/ \E event \in Events : OnMessage(event)
  \/ \E sid \in StoreSessions, event \in Events : HandleMessageGet("c1", sid, event, "enhanced")
  \/ HandleMessageCheck("c1")
  \/ \E rejects \in BOOLEAN : HandleMessageMiddleware("c1", rejects)
  \/ \E ns \in Namespaces : HandleMessageDispatchNs("c1", ns)
  \/ HandleMessageReturn("c1")

SpecNamespace == Init /\ [][NextNamespace]_vars

\* the client connects and reconnects; the middleware chain passes or rejects
\* each connect request
NextConnect ==
  \/ \E sid \in Sessions : HandleConnectCreate(sid)
  \/ \E rejects \in BOOLEAN : HandleConnectMiddleware(rejects)
  \/ HandleConnectRollback
  \/ ClientConnectFailed
  \/ ClientConnected
  \/ \E sid \in Sessions : ConnectHandlersRun(sid)
  \/ ClientStreamStart
  \/ ClientStreamError

SpecConnect == Init /\ [][NextConnect]_vars

\* EnhancedSocketServer: sessions connect, their connect handlers run off the
\* timer, and disconnect requests arrive at any time; neither request names a
\* namespace, so both sides use the default one
NextLifecycle ==
  \/ \E sid \in Sessions : HandleConnectCreate(sid)
  \/ \E rejects \in BOOLEAN : HandleConnectMiddleware(rejects)
  \/ HandleConnectRollback
  \/ ClientConnectFailed
  \/ ClientConnected
  \/ \E sid \in Sessions : EnhancedConnectHandlersRun(sid, "/")
  \/ \E sid \in Sessions, throws \in BOOLEAN : HandleDisconnectGet("c2", sid, "enhanced", throws)
  \/ HandleDisconnectLeaveAll("c2")
  \/ EnhancedDisconnectHandlers("c2", "/")
  \/ HandleDisconnectDelete("c2")

SpecLifecycle == Init /\ [][NextLifecycle]_vars

\* sockets of the three server classes emit to sessions whose streams open
\* and close
NextEmit ==
  \/ \E sid \in StoreSessions : StreamStart(sid)
  \/ \E sid \in StoreSessions : StreamAbort(sid)
  \/ \E c \in Callers, sid \in StoreSessions :
        nextMsg <= MaxQueueMsgs /\ EmitBegin(c, sid, FALSE, FALSE)
  \/ \E c \in Callers : EmitEnqueueRPush(c)
  \/ \E c \in Callers : EmitEnqueueExpire(c)
  \/ \E c \in Callers : EmitUpstashEnqueue(c)
  \/ \E c \in Callers : EmitPublish(c)
  \/ \E c \in Callers, sid \in StoreSessions :
        nextMsg <= MaxQueueMsgs /\ EnhancedEmitBegin(c, sid)
  \/ \E c \in Callers : EnhancedEmitRPush(c)
  \/ \E c \in Callers : EnhancedEmitPublish(c)
  \/ \E c \in Callers : EnhancedEmitExpire(c)
  \/ \E c \in Callers, sid \in StoreSessions : nextMsg <= MaxQueueMsgs /\ EdgeEmit(c, sid)

SpecEmit == Init /\ [][NextEmit]_vars

\* sessions are tracked for users (the user of the first session is named
\* u1), change status, send heartbeats and are untracked, while time passes
\* and the idle sweep runs
NextPresence ==
  \/ \E status \in {"online", "away"} : Track("s1", "u1", status)
  \/ \E u \in Users, status \in {"online", "away"} : Track("s2", u, status)
  \/ \E s \in StoreSessions : Untrack(s)
  \/ \E s \in StoreSessions, status \in {"online", "busy"} : SetStatus(s, status)
  \/ \E s \in StoreSessions : Heartbeat(s)
  \/ CheckStalePresences
  \/ PresenceTick

SpecPresence == Init /\ [][NextPresence]_vars

\* messages reach the client, some of them more than once, and the dedupe
\* cleanup runs
NextDedupe ==
  \/ \E k \in MsgNums : ClientReceive(k)
  \/ DedupeCleanup

SpecDedupe == Init /\ [][NextDedupe]_vars

\* the client connects, loses its connection and reconnects, while the
\* application emits with ack callbacks; each request completes or fails, the
\* ack message arrives or not, and the timeouts fire
NextClientAck ==
  \/ \E sid \in StoreSessions : HandleConnectCreate(sid)
  \/ HandleConnectMiddleware(FALSE)
  \/ ClientConnected
  \/ ClientStreamError
  \/ \E e \in ClientEmits : ClientEmit(e)
  \/ \E e \in ClientEmits : ClientAckTimeout(e)
  \/ \E e \in ClientEmits : ClientFetchDone(e)
  \/ \E e \in ClientEmits : ClientFetchFails(e)
  \/ \E e \in ClientEmits : ClientAckMessage(e)

SpecClientAck == Init /\ [][NextClientAck]_vars

\* the client connects over its current transport, the application switches
\* transports, streams and polls fail and the client reconnects
NextTransport ==
  \/ \E sid \in Sessions : HandleConnectCreate(sid)
  \/ HandleConnectMiddleware(FALSE)
  \/ ClientConnected
  \/ ClientConnectedPolling
  \/ ClientStreamStart
  \/ ClientStreamError
  \/ \E i \in 1..MaxIntervals : ClientPollFails(i)
  \/ \E transport \in {"sse", "polling"} : ClientSwitchTransport(transport)

SpecTransport == Init /\ [][NextTransport]_vars

\* the enhanced client with its timers: connect requests pass or fail,
\* transports fail, reconnect timers call connect(), the application switches
\* the transport and calls disconnect() at any moment, and does not call
\* connect() again after it
NextTimers ==
  \/ \E sid \in Sessions : (cReconnectTimer \/ ~cDisconnectReturned) /\ HandleConnectCreate(sid)
  \/ \E rejects \in BOOLEAN : HandleConnectMiddleware(rejects)
  \/ HandleConnectRollback
  \/ ClientConnectFailed
  \/ ClientConnectedTimers
  \/ ClientStreamError
  \/ \E i \in 1..MaxIntervals : ClientPollFails(i)
  \/ \E transport \in {"sse", "polling"} : ClientSwitchTransport(transport)
  \/ ClientDisconnect

SpecTimers == Init /\ [][NextTimers]_vars

\* the basic client connects over sse or polling; its requests, streams and
\* polls fail or succeed and its reconnect timers fire
NextBasic ==
  \/ \E transport \in {"sse", "polling"} : BasicStart(transport)
  \/ BasicConnectOk
  \/ BasicConnectFails
  \/ BasicTimerFires
  \/ BasicPollFails
  \/ BasicStreamError

SpecBasic == Init /\ [][NextBasic]_vars

\* sessions are created and handlers invoked for them call socket.set, each
\* followed by its background updateSession
NextSet ==
  \/ \E sid \in StoreSessions : sid \notin created /\ CreateSession(sid)
  \/ \E h \in Handlers, sid \in StoreSessions : SetHandlerGet(h, sid)
  \/ \E h \in Handlers, key \in Keys : SocketSet(h, key)
  \/ \E h \in Handlers : SetUpdateGet(h)
  \/ \E h \in Handlers : SetUpdateSetex(h)

SpecSet == Init /\ [][NextSet]_vars

\* the application registers middlewares; clients then connect with a
\* missing, invalid or valid token, lose their stream and reconnect
NextChain ==
  \/ \E kind \in MiddlewareKinds : Use(kind)
  \/ \E sid \in Sessions : HandleConnectCreate(sid)
  \/ \E token \in Tokens : HandleConnectExecute(token)
  \/ HandleConnectRollback
  \/ ClientConnectFailed
  \/ ClientConnected
  \/ ClientStreamError

SpecChain == Init /\ [][NextChain]_vars

\* ------------------------------------------------------------------ claims
InQueue(k) == \E s \in Sessions : \E i \in 1..Len(queue[s]) : queue[s][i].data = k

\* C1: a drain that no push overlapped returns exactly the messages pushed
\* since the previous drain, in insertion order (so a drain that immediately
\* follows another returns the empty sequence), and leaves the queue empty.
C1_DrainComplete ==
  \A s \in Sessions :
    (deqDone[s] /\ deqPc[s] = "idle" /\ deqClean[s]) =>
      /\ SameMessages(drained[s], deqExpected[s])
      /\ (sent[s] = <<>> => queue[s] = <<>>)

\* C1 witness: a drain of three messages on one session completed cleanly;
\* and (second witness state is covered by the formula) the queue is empty.
C1_Witness ==
  \E s \in Sessions :
    /\ deqDone[s] /\ deqPc[s] = "idle" /\ deqClean[s]
    /\ Len(drained[s]) = MaxQueueMsgs
    /\ queue[s] = <<>>

\* C2: every pushed message is either still in the queue and not yet
\* returned, or gone from the queue and returned by exactly one drain.
C2_NoMessageLost ==
  \A k \in pushed :
    \/ (InQueue(k) /\ returnedCnt[k] = 0)
    \/ (~InQueue(k) /\ returnedCnt[k] = 1)

\* C5: while no other request touches the pair (s, r): after joinRoom(s, r)
\* has completed r is in getSessionRooms(s) and s is in getRoomMembers(r),
\* and after leaveRoom(s, r) has completed neither is.
C5_JoinLeaveIndex ==
  \A c \in Callers :
    (rmPc[c] = "idle" /\ rmClean[c]) =>
      /\ rmLast[c] = "joined" =>
           (rmRoom[c] \in GetSessionRooms(rmSid[c]) /\ rmSid[c] \in GetRoomMembers(rmRoom[c]))
      /\ rmLast[c] = "left" =>
           (rmRoom[c] \notin GetSessionRooms(rmSid[c]) /\ rmSid[c] \notin GetRoomMembers(rmRoom[c]))

\* C5 witness: a leaveRoom(s, r) completed undisturbed after a joinRoom(s, r)
\* of another caller had completed.
C5_Witness ==
  \E c, d \in Callers :
    /\ c # d /\ rmSid[c] = rmSid[d] /\ rmRoom[c] = rmRoom[d]
    /\ rmPc[c] = "idle" /\ rmPc[d] = "idle"
    /\ rmLast[d] = "joined" /\ rmLast[c] = "left" /\ rmClean[c]

\* C6: whenever no joinRoom or leaveRoom is in progress, the forward and
\* the reverse index agree.
C6_IndicesAgree ==
  (\A c \in Callers : rmPc[c] = "idle") =>
    \A s \in Sessions, r \in Rooms :
      (s \in GetRoomMembers(r)) <=> (r \in GetSessionRooms(s))

\* the ack callbacks that were passed to an emit
Registered == {id \in AckIds : id \in ackCallbacks \/ id \in ackTimers
                                \/ cbResp[id] > 0 \/ cbTimeout[id] > 0}

\* C7: the ack callback of an emit is invoked at most once, never both with
\* a response and with the timeout error, and once its 5 s timer has fired
\* it has been invoked exactly once.
C7_AckExactlyOnce ==
  \A id \in Registered :
    /\ cbResp[id] + cbTimeout[id] <= 1
    /\ (id \notin ackTimers => cbResp[id] + cbTimeout[id] = 1)

\* the PUBLISH commands issued for message k, over all session channels
Deliveries(k) ==
  LET RECURSIVE Sum(_)
      Sum(S) == IF S = {} THEN 0
                ELSE LET s == CHOOSE x \in S : TRUE IN pubCnt[s][k] + Sum(S \ {s})
  IN Sum(Sessions)

\* C8: a broadcastToRoom that has resolved published its message exactly once
\* to the channel of each member of the room other than the sender, and never
\* to the sender or to a session outside the room: with N members including
\* the sender that is N-1 deliveries. While it runs, no channel got it twice.
C8_BroadcastExclusion ==
  \A k \in MsgNums :
    bcKind[k] = "room" =>
      /\ pubCnt[bcSender[k]][k] = 0
      /\ \A s \in Sessions : pubCnt[s][k] <= 1
      /\ \A s \in Sessions \ bcSnap[k] : pubCnt[s][k] = 0
      /\ bcDone[k] =>
           /\ \A s \in bcSnap[k] \ {bcSender[k]} : pubCnt[s][k] = 1
           /\ (bcSender[k] \in bcSnap[k] => Deliveries(k) = Cardinality(bcSnap[k]) - 1)

C8_Witness ==
  \E k \in MsgNums :
    /\ bcKind[k] = "room"
    /\ bcDone[k]
    /\ bcSnap[k] = Sessions
    /\ Deliveries(k) = 2

\* message k is in the durable queue of session s
QueueHolds(s, k) == \E i \in 1..Len(queue[s]) : Parse(queue[s][i]).data = k

\* C9: after broadcastToRoom has resolved, its message is in the durable
\* queue of every member of the room other than the sender.
C9_BroadcastToRoomEnqueues ==
  \A k \in MsgNums :
    (bcKind[k] = "room" /\ bcDone[k]) =>
      \A s \in bcSnap[k] \ {bcSender[k]} : QueueHolds(s, k)

\* message k was written to the stream of session s
Streamed(s, k) == \E i \in 1..Len(streamed[s]) : Parse(streamed[s][i]).data = k

\* C10: a broadcast reaches the stream of every session other than the sender
\* that had an active stream when it was published, and never the sender's.
C10_BroadcastReachesOthers ==
  \A k \in MsgNums :
    (bcKind[k] = "all" /\ bcDone[k]) =>
      /\ ~Streamed(bcSender[k], k)
      /\ \A s \in bcSubs[k] \ {bcSender[k]} : Streamed(s, k)

\* C3: a message whose emit to the client's session had resolved when the
\* client began a connect has been handled by the client at least once when
\* that connect has completed (over the stream before, or from the queue at
\* the reconnect).
C3_EmittedIsReceived ==
  \A k \in MsgNums : reconnected[k] => cHandled[k] >= 1

\* the messages emitted to the client's session while it was offline, after
\* which the client has reconnected
OfflineCaughtUp == {k \in MsgNums : emOffline[k] /\ reconnected[k]}

\* C4: when 3 messages were emitted while the client was offline and the
\* client has reconnected carrying its watermark, each of the 3 was returned
\* once in missedMessages and handled exactly once.
C4_ReconnectCatchUp ==
  (Cardinality(OfflineCaughtUp) = 3 /\ cSentTs > 0) =>
     \A k \in OfflineCaughtUp : missedCnt[k] = 1 /\ cHandled[k] = 1

\* C13: a session record that was written less than ttl seconds ago is
\* retrievable, whatever its age, and one not written for ttl seconds is
\* absent (sessions that were deleted aside).
C13_TtlSlides ==
  \A s \in created \ deleted :
    /\ sinceWrite[s] < Ttl => Get(s) # "null"
    /\ sinceWrite[s] >= Ttl => Get(s) = "null"

C13_Witness ==
  \E s \in created \ deleted : age[s] > Ttl /\ Get(s) # "null"

\* C16: an updateSession that read no record has ended without writing.
C16_AbsentUpdateDropped ==
  \A c \in Callers : updSawAbsent[c] => (updPc[c] = "idle" /\ ~updWrote[c])

C16_Witness ==
  \E c \in Callers :
    /\ updSawAbsent[c]
    /\ updSid[c] \in created
    /\ Get(updSid[c]) = "null"

\* C17: once deleteSession(s) has completed, the record of s is absent in
\* every later state.
C17_NoResurrection ==
  \A s \in deleted : Get(s) = "null"

\* C15: every key the state manager has written has an expiry: the session
\* record, a non-empty queue, a non-empty room member set and a non-empty
\* per-session room set.
C15_AllKeysExpire ==
  /\ \A s \in Sessions :
       /\ Get(s) # "null" => sessTtl[s] > 0
       /\ queue[s] # <<>> => qExp[s]
       /\ sessionRooms[s] # {} => srExp[s]
  /\ \A r \in Rooms : roomMembers[r] # {} => rmExp[r]

\* C11: when the application's disconnect handler throws, handleDisconnect
\* still leaves the session cleaned up: its record is gone from the store and
\* it is a member of no room.
C11_DisconnectCleansUpOnThrow ==
  \A s \in Sessions :
    hdResult[s] = "threw" =>
      /\ Get(s) = "null"
      /\ GetSessionRooms(s) = {}
      /\ \A r \in Rooms : s \notin GetRoomMembers(r)

\* C12: once handleDisconnect has returned for a session, the session is a
\* member of no room: its own room set is empty and no room lists it.
C12_DisconnectLeavesRooms ==
  \A s \in Sessions :
    hdResult[s] = "returned" =>
      /\ GetSessionRooms(s) = {}
      /\ \A r \in Rooms : s \notin GetRoomMembers(r)

\* C14: a session with traffic does not expire: as long as less than ttl
\* seconds have passed since a handleMessage last found the session, its
\* record is still retrievable.
C14_TrafficKeepsSessionAlive ==
  \A s \in created \ deleted : sinceMsg[s] < Ttl => Get(s) # "null"

\* C18: every step of a handleMessage whose read found no session record
\* leaves the store as it is, the call ends at the check with "Session not
\* found", and it runs neither the middleware chain nor a handler.
C18_AbsentSessionRejected ==
  [][\A c \in Callers :
       (hmPc'[c] # hmPc[c] /\ hmPc[c] \in {"idle", "got"} /\ hmState'[c] = "null") =>
         /\ hmPc'[c] \in {"got", "idle"}
         /\ hmPc'[c] = "idle" => hmOutcome'[c] = "notfound"
         /\ ~hmRanMiddleware'[c] /\ ~hmRanHandler'[c]
         /\ UNCHANGED <<queue, qExp, live, sessTtl, roomMembers, sessionRooms>>]_vars

C18_Witness ==
  \E c \in Callers :
    /\ hmPc[c] = "idle" /\ hmState[c] = "null" /\ hmOutcome[c] = "notfound"
    /\ hmSid[c] \in deleted

\* C19: every step of a handleMessage that found the session and carries an
\* event without a registered handler leaves the session record, the queues
\* and the rooms as they are; no handler is invoked, and unless the middleware
\* chain rejected the request the call returns normally after the lookup.
C19_UnknownEventIgnored ==
  [][\A c \in Callers :
       (hmPc'[c] # hmPc[c] /\ hmState'[c] = "state" /\ hmEvent'[c] \notin RegisteredEvents) =>
         /\ hmPc'[c] # "handler" /\ ~hmRanHandler'[c]
         /\ hmPc[c] = "dispatch" => hmPc'[c] = "idle" /\ hmOutcome'[c] = "returned"
         /\ UNCHANGED <<queue, qExp, live, sessTtl, roomMembers, sessionRooms>>]_vars

C19_Witness ==
  \E c \in Callers :
    /\ hmPc[c] = "idle" /\ hmState[c] = "state" /\ hmEvent[c] \notin RegisteredEvents
    /\ hmOutcome[c] = "returned" /\ ~hmRanHandler[c]

\* C20: a session whose handleConnect the middleware chain rejected is not
\* left behind: once the rollback has run its record is absent, the client
\* was never handed the session id, and the connect handlers are neither
\* scheduled nor run for it.
C20_RejectedConnectRolledBack ==
  \A s \in hcRejected :
    \/ hcPc = "rollback" /\ hcSid = s
    \/ /\ Get(s) = "null"
       /\ cId # s
       /\ s \notin hcTimers
       /\ s \notin onConnectRan

C20_Witness ==
  \E s \in hcRejected : hcSid = s /\ hcPc = "failed" /\ s \in created

\* C29: a message of an emit is published on the session's channel only
\* after it was appended to the session's queue: whatever a subscriber has
\* been handed, or the channel has carried, was pushed to the queue before.
C29_EnqueueBeforePublish ==
  \A s \in Sessions, k \in MsgNums :
    (pubCnt[s][k] > 0 \/ \E i \in 1..Len(streamed[s]) : streamed[s][i].data = k) =>
      k \in pushed

C29_Witness ==
  \E s \in Sessions, k \in MsgNums :
    /\ \E i \in 1..Len(streamed[s]) : streamed[s][i].data = k
    /\ k \in pushed

C26_StatusIsUnion ==
  \A u \in Users :
    (\E s \in Sessions : socketToUser[s] = u /\ sockStatus[s] = "online") =>
      presStatus[u] = "online"

\* C27: right after an idle sweep, a user not heard of for more than the
\* away timeout is not online, and one not heard of for more than the offline
\* timeout is offline with none of its sessions tracked.
C27_SweepDemotesBySilence ==
  presOp[1] = "sweep" =>
    \A u \in Users :
      presStatus[u] # "none" =>
        /\ sinceBeat[u] > AwayTimeout => presStatus[u] # "online"
        /\ sinceBeat[u] > OfflineTimeout =>
             /\ presStatus[u] = "offline"
             /\ userToSockets[u] = <<>>
             /\ \A s \in Sessions : socketToUser[s] # u

\* C21 as stated: the handlers run at most once for every messageId.
C21_AtMostOncePerId ==
  \A k \in MsgNums : cHandled[k] <= 1

\* C21 amended: a message is dispatched only if its messageId is not in the
\* recently-seen set, and then once; a message whose id is in the set is
\* dropped.
C21_SeenNotDispatched ==
  [][\A k \in MsgNums :
       cHandled'[k] # cHandled[k] =>
         /\ ~SetHas(cProcessed, MessageIdOf(k))
         /\ cHandled'[k] = cHandled[k] + 1]_vars

C21_Witness ==
  \E k \in MsgNums :
    /\ cReceived[k] = 2
    /\ cHandled[k] = 1
    /\ SetHas(cProcessed, MessageIdOf(k))

\* C23: the ack callback of a client emit is never invoked more than once,
\* and once its request and its timeout are over it has been invoked exactly
\* once.
C23_AckCalledOnce ==
  \A e \in ClientEmits :
    /\ Len(ceCalls[e]) <= 1
    /\ (ceFetch[e] # "none" /\ e \notin ceTimers /\ ceFetch[e] # "sent") => Len(ceCalls[e]) = 1

\* C24: switchTransport on a connected client leaves the session id and the
\* connected flag alone, sends no connect request, and afterwards exactly
\* the new transport is active: an EventSource and no polling interval for
\* sse, one polling interval and no EventSource for polling.
C24_SwitchKeepsSession ==
  [][(cTransport' # cTransport /\ cConnected) =>
       /\ cId' = cId
       /\ cConnected' = cConnected
       /\ UNCHANGED <<hcPc, hcSid, created>>
       /\ cTransport' = "sse" => (cEventSource' /\ cIntervals' = {})
       /\ cTransport' = "polling" => (~cEventSource' /\ cIntervals' = {cPollingInterval'})]_vars

\* C22: the client never makes more than maxReconnectAttempts automatic
\* reconnect attempts in a row, that is, without a successful connect in
\* between.
C22_ReconnectCapped ==
  bRun <= BasicMaxReconnectAttempts

\* C28: the basic client's reconnect delays are 1 s, 2 s, 4 s and 8 s for the
\* first four attempts and 10 s for every later one.
C28_BackoffDelays ==
  LET attempt == bSched[1] IN
    attempt > 0 =>
      bSched[2] = IF attempt <= 4 THEN 1000 * 2^(attempt - 1) ELSE 10000

\* C33: a handleDisconnect that finds no record runs no handler and changes
\* nothing in the store, and of the handleDisconnect calls made one after
\* the other for a session only the first runs the disconnect handler.
C33_DisconnectOnce ==
  [][\A c \in Callers :
       /\ (hdPc[c] = "idle" /\ hdPc'[c] # "idle") => Get(hdSid'[c]) # "null"
       /\ (hdPc[c] = "idle" /\ hdPc'[c] = "idle"
             /\ <<hdSid[c], hdKind[c], hdThrows[c]>>' # <<hdSid[c], hdKind[c], hdThrows[c]>>) =>
            UNCHANGED <<live, queue, roomMembers, sessionRooms, hdResult>>
       /\ (hdPc[c] = "handler" /\ hdPc'[c] # "handler") =>
            hdResult[hdSid[c]] = "none"]_vars

\* C37: the presence indices agree: a session maps to user u in socketToUser
\* exactly if it is in userToSockets[u], so no session is in two users' sets.
C37_PresenceIndicesAgree ==
  \A s \in Sessions, u \in Users :
    socketToUser[s] = u <=> SetHas(userToSockets[u], s)

\* C40: when two handler invocations for one session have set different keys
\* and both their persists have completed, the stored session data holds
\* both keys.
C40_NoLostUpdate ==
  \A g, h \in Handlers :
    (/\ g # h
     /\ shPc[g] = "done" /\ shPc[h] = "done"
     /\ shSid[g] = shSid[h]
     /\ shKey[g] # shKey[h]) =>
      {shKey[g], shKey[h]} \subseteq sData[shSid[g]]

\* C32: with authMiddleware in the chain, handleConnect returns a session id
\* and leaves a session record only for a request whose token verifyToken
\* accepted.
C32_AuthRequired ==
  \A s \in Sessions :
    (/\ \E i \in 1..Len(mwChain) : mwChain[i] = "auth"
     /\ mwToken[s] # "unset"
     /\ s \in hcTimers \/ (Get(s) # "null" /\ ~(hcSid = s /\ hcPc = "rollback"))) =>
      mwToken[s] = "good"

\* C35: execute invokes the middlewares in registration order, each at most
\* once and none after a gap; one that throws or calls next(error) is the
\* last to run and makes execute reject.
C35_ChainOrderAndAbort ==
  mwResult # "none" =>
    /\ \A i \in 1..Len(mwRan) : mwRan[i] = i
    /\ \A i \in 1..Len(mwRan) :
         (\/ mwChain[i] \in {"throw", "nexterr"}
          \/ (mwChain[i] = "auth" /\ mwToken[hcSid] # "good")) =>
           /\ i = Len(mwRan)
           /\ mwResult = "rejected"

\* C31: a non-reserved message on a live session invokes at most one
\* application handler: the one registered for the event in the message's
\* namespace if there is one, otherwise the global one; the global handler is
\* never invoked when the namespace handled the event
C31_OneHandler ==
  [][\A c \in Callers :
       (hmPc[c] = "dispatch" /\ hmPc'[c] # "dispatch" /\ hmEvent[c] \notin InternalEvents) =>
         /\ Len(hmInvoked'[c]) <= 1
         /\ hmInvoked'[c] =
              IF hmEvent[c] \in nsMessages[hmNs'[c]] THEN <<hmNs'[c]>>
              ELSE IF hmEvent[c] \in glMessages THEN <<"global">>
              ELSE <<>>]_vars

\* a message for an event that has a handler in its namespace and a global
\* handler has been dispatched
C31_Witness ==
  /\ hmPc["c1"] = "handler"
  /\ hmEvent["c1"] \in nsMessages[hmNs["c1"]] \cap glMessages
  /\ hmInvoked["c1"] = <<hmNs["c1"]>>

\* C34: disconnected is terminal: once handleDisconnect has completed for a
\* session, the connect handler handleConnect scheduled for it does not run
C34_NoConnectAfterDisconnect ==
  [][\A s \in Sessions :
       hdResult[s] = "returned" => (s \in onConnectRan' => s \in onConnectRan)]_vars

\* C36: after handleDisconnect(s) has completed, s is in no namespace's socket
\* map, whatever the order of the delayed connect handler and the disconnect
C36_NoDisconnectedSocket ==
  \A s \in Sessions, ns \in Namespaces : hdResult[s] = "returned" => s \notin nsSockets[ns]

\* C38: the client runs at most one transport and at most one of each timer:
\* at most one EventSource or polling interval, one heartbeat interval and
\* one dedupe cleanup interval, and disconnect() stops all of them
C38_OneOfEach ==
  [][/\ Cardinality(cIntervals') + (IF cEventSource' THEN 1 ELSE 0) <= 1
     /\ cHeartbeats' <= 1
     /\ cDedupeCleanups' <= 1
     /\ (~cDisconnectReturned /\ cDisconnectReturned') =>
          /\ ~cEventSource' /\ cIntervals' = {}
          /\ cHeartbeats' = 0 /\ cDedupeCleanups' = 0]_vars

\* C39: after disconnect() has returned the client stays disconnected until
\* connect() is called again: connected stays false and no connect request,
\* reconnect timer or transport is started
C39_StaysDisconnected ==
  [][(cDisconnectReturned /\ cDisconnectReturned') =>
       /\ ~cConnected'
       /\ cReconnectTimer' => cReconnectTimer
       /\ cEventSource' => cEventSource
       /\ cIntervals' \subseteq cIntervals
       /\ hcPc = "idle" => hcPc' = "idle"]_vars

====
